---- MODULE Spec2Model ----
(***************************************************************************)
(* State-machine model of the statement reconciliation service:            *)
(*   internal/storage/memory_store.go      the ledger store (MemoryStore)  *)
(*   internal/eventbus/bus.go              the event bus and its workers   *)
(*   internal/eventbus/reconciliation_consumer.go   Consume                *)
(*   pkg/retry/retry.go                    the retry loop around Consume   *)
(* Every MemoryStore method runs under the store's mutex, so each method   *)
(* is one atomic step.  Values of type time.Time are not modelled; a       *)
(* *time.Time is modelled by whether it is nil.                            *)
(***************************************************************************)
EXTENDS Integers, Sequences, FiniteSets, TLC

(***************************************************************************)
(* Bounds of the model.                                                    *)
(***************************************************************************)
\* rows the store holds over all uploads (guard of the client's AddTransaction)
MaxRows == 3
\* value up to which a client increments processed_rows
MaxProcessed == 1
\* rows the store holds where the upload's life is what is checked
MaxStoreRows == 1
\* largest page number a client asks for
MaxPage == 3
\* largest page size a client asks for
MaxPerPage == 2

(***************************************************************************)
(* internal/domain/models.go                                               *)
(***************************************************************************)
TransactionTypeCredit == "CREDIT"
TransactionTypeDebit == "DEBIT"
TransactionStatusSuccess == "SUCCESS"
TransactionStatusFailed == "FAILED"
TransactionStatusPending == "PENDING"
UploadStatusProcessing == "processing"
UploadStatusCompleted == "completed"
UploadStatusFailed == "failed"

TransactionTypes == {TransactionTypeCredit, TransactionTypeDebit}
TransactionStatuses ==
    {TransactionStatusSuccess, TransactionStatusFailed, TransactionStatusPending}
UploadStatuses == {UploadStatusProcessing, UploadStatusCompleted, UploadStatusFailed}

\* errors (domain/errors.go); NoErr is Go's nil error
NoErr == "nil"
ErrUploadNotFound == "upload not found"

\* a nil pointer (*time.Time, *TransactionStatus, *Upload)
Nil == "nil"
NotNil == "set"

(***************************************************************************)
(* Inputs: the upload ids, event ids and rows the callers use.  Rows 1..4  *)
(* are the statement of the integration test (TestStatementUploadFlow);    *)
(* row 5 has the zero Type, as the rows the store's own tests add; row 6   *)
(* is the type/status combination the others leave out.                    *)
(***************************************************************************)
UploadIds == {"u1", "u2"}
EventIds == {"e1", "e2"}

Tx(c, t, a, s) == [Counterparty |-> c, Type |-> t, Amount |-> a, Status |-> s]
Row(tx, line) == [tx |-> tx, line |-> line]

JohnDoe == Tx("JOHN DOE", TransactionTypeDebit, 250000, TransactionStatusSuccess)
JaneDoe == Tx("JANE DOE", TransactionTypeCredit, 500000, TransactionStatusSuccess)
BobSmith == Tx("BOB SMITH", TransactionTypeDebit, 100000, TransactionStatusFailed)
AliceWonder ==
    Tx("ALICE WONDER", TransactionTypeCredit, 300000, TransactionStatusPending)
NoType == Tx("USER5", "", 700, TransactionStatusSuccess)
DebitPending == Tx("USER6", TransactionTypeDebit, 2000, TransactionStatusPending)

\* the rows a client of the ledger adds
LedgerRows ==
    { Row(JohnDoe, 1), Row(JaneDoe, 2), Row(BobSmith, 3), Row(AliceWonder, 4),
      Row(NoType, 5), Row(DebitPending, 6) }
\* the rows a client adds where the upload's life is what is checked
StoreRows == { Row(JaneDoe, 2), Row(BobSmith, 3) }

\* the status filters a caller of GetIssues passes (Nil: no filter)
StatusFilters == {Nil} \cup TransactionStatuses
Pages == 0 .. MaxPage
PerPages == 0 .. MaxPerPage

(***************************************************************************)
(* State.                                                                  *)
(***************************************************************************)
VARIABLES
    uploads,          \* MemoryStore.uploads: upload id -> Upload
    transactions,     \* MemoryStore.transactions: upload id -> rows
    processedEvents,  \* MemoryStore.processedEvents: ids mapped to true
    ret,              \* what the client's last repository call returned
    channels,         \* eventBus.channels: event type -> queued events
    consumers,        \* eventBus.consumers: event type -> consumers subscribed
    started,          \* eventBus.started
    busCtx,           \* eventBus.ctx: Nil before Start, then active or cancelled
    wg,               \* eventBus.wg: workers that have not returned
    workers,          \* the worker goroutines Start spawned, in spawning order
    shutdown,         \* where the caller of Shutdown stands
    pubRet,           \* what the last Publish did and returned
    accepted,         \* the events Publish has put on a queue so far, in order
    callers,          \* the goroutines of the store's concurrency test
    do,               \* a call of retry.Do: its config, loop counter and result
    proc,             \* a run of CSVProcessor.ProcessStream
    svc,              \* the calls of statementService.UploadStatement
    main              \* main after its wiring, and the requests' contexts

storeVars == <<uploads, transactions, processedEvents>>
busVars ==
    <<channels, consumers, started, busCtx, wg, workers, shutdown, pubRet, accepted>>
vars ==
    <<uploads, transactions, processedEvents, ret, channels, consumers, started,
      busCtx, wg, workers, shutdown, pubRet, accepted, callers, do, proc, svc, main>>

\* what a step of the client, of the bus and of a test goroutine leaves alone
exceptClient == <<busVars, callers, do, proc, svc, main>>
exceptBus == <<ret, callers, do, proc, svc, main>>
exceptCallers == <<ret, busVars, do, proc, svc, main>>

\* no call of Do, no run of ProcessStream and no call of UploadStatement yet
NoDo == do = <<>>
NoProc == proc = <<>>
NoSvc == svc = <<>>

\* main blocked at <-quit, the HTTP server serving; no request's context is done
Main(pc, cancelled) == [pc |-> pc, cancelled |-> cancelled]
AtQuit == main = Main("quit", {})

Idle == NoDo /\ NoProc /\ NoSvc /\ AtQuit

\* Go maps: a function whose domain is the set of keys present
EmptyMap == [k \in {} |-> k]
MapPut(m, k, v) == [x \in DOMAIN m \cup {k} |-> IF x = k THEN v ELSE m[x]]

\* the store as one value, and the assignment of one to the variables
Store ==
    [uploads |-> uploads, transactions |-> transactions,
     processedEvents |-> processedEvents]
SetStore(s) ==
    /\ uploads' = s.uploads
    /\ transactions' = s.transactions
    /\ processedEvents' = s.processedEvents

NewMemoryStore ==
    [uploads |-> EmptyMap, transactions |-> EmptyMap, processedEvents |-> {}]

(***************************************************************************)
(* MemoryStore's methods, each a function of the store:                    *)
(* [store: the store after the call, err, and the method's results].       *)
(***************************************************************************)
CreateUpload(s, uploadID) ==
    [store |-> [s EXCEPT
        !.uploads = MapPut(s.uploads, uploadID,
            [ID |-> uploadID, Status |-> UploadStatusProcessing,
             ProcessedRows |-> 0, TotalRows |-> 0, CompletedAt |-> Nil]),
        !.transactions = MapPut(s.transactions, uploadID, <<>>)],
     err |-> NoErr]

\* the *Upload returned is the store's own record: modelled by its key
GetUpload(s, uploadID) ==
    IF uploadID \notin DOMAIN s.uploads
    THEN [store |-> s, err |-> ErrUploadNotFound, upload |-> Nil]
    ELSE [store |-> s, err |-> NoErr, upload |-> uploadID]

UpdateUploadStatus(s, uploadID, status) ==
    IF uploadID \notin DOMAIN s.uploads
    THEN [store |-> s, err |-> ErrUploadNotFound]
    ELSE [store |-> [s EXCEPT
            !.uploads[uploadID].Status = status,
            !.uploads[uploadID].CompletedAt =
                IF status = UploadStatusCompleted \/ status = UploadStatusFailed
                THEN NotNil ELSE @],
          err |-> NoErr]

\* IncrementProcessedRows adding one to a copy of the upload
IncrementProcessedRows_OnCopy(s, uploadID) ==
    IF uploadID \notin DOMAIN s.uploads
    THEN [store |-> s, err |-> ErrUploadNotFound]
    ELSE [store |-> s, err |-> NoErr]

\* IncrementProcessedRows counting a row twice
IncrementProcessedRows_Twice(s, uploadID) ==
    IF uploadID \notin DOMAIN s.uploads
    THEN [store |-> s, err |-> ErrUploadNotFound]
    ELSE [store |-> [s EXCEPT !.uploads[uploadID].ProcessedRows = @ + 2],
          err |-> NoErr]

IncrementProcessedRows(s, uploadID) ==
    IF uploadID \notin DOMAIN s.uploads
    THEN [store |-> s, err |-> ErrUploadNotFound]
    ELSE [store |-> [s EXCEPT !.uploads[uploadID].ProcessedRows = @ + 1],
          err |-> NoErr]

\* append of a map entry that is absent appends to the nil slice
RowsOf(s, uploadID) ==
    IF uploadID \in DOMAIN s.transactions THEN s.transactions[uploadID] ELSE <<>>

\* AddTransaction without the lookup of the upload
AddTransaction_NoLookup(s, uploadID, tx, lineNumber) ==
    [store |-> [s EXCEPT
        !.transactions = MapPut(s.transactions, uploadID,
            Append(RowsOf(s, uploadID),
                   [Transaction |-> tx, LineNumber |-> lineNumber]))],
     err |-> NoErr]

\* AddTransaction with the row put in front of the ledger
AddTransaction_Prepend(s, uploadID, tx, lineNumber) ==
    IF uploadID \notin DOMAIN s.uploads
    THEN [store |-> s, err |-> ErrUploadNotFound]
    ELSE [store |-> [s EXCEPT
            !.transactions = MapPut(s.transactions, uploadID,
                <<[Transaction |-> tx, LineNumber |-> lineNumber]>>
                    \o RowsOf(s, uploadID))],
          err |-> NoErr]

AddTransaction(s, uploadID, tx, lineNumber) ==
    IF uploadID \notin DOMAIN s.uploads
    THEN [store |-> s, err |-> ErrUploadNotFound]
    ELSE [store |-> [s EXCEPT
            !.transactions = MapPut(s.transactions, uploadID,
                Append(RowsOf(s, uploadID),
                       [Transaction |-> tx, LineNumber |-> lineNumber]))],
          err |-> NoErr]

\* BalanceLoop without the test of the row's status
RECURSIVE BalanceLoop_AnyStatus(_, _, _)
BalanceLoop_AnyStatus(txs, i, balance) ==
    IF i > Len(txs) THEN balance
    ELSE LET tx == txs[i].Transaction IN
         BalanceLoop_AnyStatus(txs, i + 1,
            IF tx.Type = TransactionTypeCredit THEN balance + tx.Amount
            ELSE IF tx.Type = TransactionTypeDebit THEN balance - tx.Amount
            ELSE balance)

\* the loop of GetBalance over rows i..Len(txs), balance so far in `balance`
RECURSIVE BalanceLoop(_, _, _)
BalanceLoop(txs, i, balance) ==
    IF i > Len(txs) THEN balance
    ELSE LET tx == txs[i].Transaction IN
         BalanceLoop(txs, i + 1,
            IF tx.Status = TransactionStatusSuccess
            THEN IF tx.Type = TransactionTypeCredit THEN balance + tx.Amount
                 ELSE IF tx.Type = TransactionTypeDebit THEN balance - tx.Amount
                 ELSE balance
            ELSE balance)

GetBalance(s, uploadID) ==
    IF uploadID \notin DOMAIN s.uploads
    THEN [store |-> s, err |-> ErrUploadNotFound, balance |-> 0]
    ELSE IF uploadID \notin DOMAIN s.transactions
    THEN [store |-> s, err |-> NoErr, balance |-> 0]
    ELSE [store |-> s, err |-> NoErr,
          balance |-> BalanceLoop(s.transactions[uploadID], 1, 0)]

\* IssuesLoop keeping every row the filter lets through
RECURSIVE IssuesLoop_FilterOnly(_, _, _, _)
IssuesLoop_FilterOnly(txs, i, status, filtered) ==
    IF i > Len(txs) THEN filtered
    ELSE LET tx == txs[i].Transaction IN
         IssuesLoop_FilterOnly(txs, i + 1, status,
            IF status # Nil /\ tx.Status # status THEN filtered
            ELSE Append(filtered,
                    [Transaction |-> tx, LineNumber |-> txs[i].LineNumber]))

\* the filtering loop of GetIssues; status is Nil or the status asked for
RECURSIVE IssuesLoop(_, _, _, _)
IssuesLoop(txs, i, status, filtered) ==
    IF i > Len(txs) THEN filtered
    ELSE LET tx == txs[i].Transaction IN
         IssuesLoop(txs, i + 1, status,
            IF status # Nil /\ tx.Status # status THEN filtered
            ELSE IF tx.Status = TransactionStatusFailed
                    \/ tx.Status = TransactionStatusPending
            THEN Append(filtered,
                    [Transaction |-> tx, LineNumber |-> txs[i].LineNumber])
            ELSE filtered)

\* perPage a caller gets when it passes one below 1
DefaultPerPage == 10

\* Go's filtered[start:end], 0-based and end-exclusive
Slice(seq, start, end) == SubSeq(seq, start + 1, end)

\* PageOf with the page's start one page too far
PageOf_StartAtPage(filtered, page, perPage) ==
    LET total == Len(filtered)
        pg == IF page < 1 THEN 1 ELSE page
        pp == IF perPage < 1 THEN DefaultPerPage ELSE perPage
        start == pg * pp
        end == start + pp
    IN  IF start >= total THEN <<>>
        ELSE Slice(filtered, start, IF end > total THEN total ELSE end)

\* the page of `filtered` that GetIssues returns
PageOf(filtered, page, perPage) ==
    LET total == Len(filtered)
        pg == IF page < 1 THEN 1 ELSE page
        pp == IF perPage < 1 THEN DefaultPerPage ELSE perPage
        start == (pg - 1) * pp
        end == start + pp
    IN  IF start >= total THEN <<>>
        ELSE Slice(filtered, start, IF end > total THEN total ELSE end)

GetIssues(s, uploadID, page, perPage, status) ==
    IF uploadID \notin DOMAIN s.uploads
    THEN [store |-> s, err |-> ErrUploadNotFound, items |-> <<>>, total |-> 0]
    ELSE IF uploadID \notin DOMAIN s.transactions
    THEN [store |-> s, err |-> NoErr, items |-> <<>>, total |-> 0]
    ELSE LET filtered == IssuesLoop(s.transactions[uploadID], 1, status, <<>>) IN
         [store |-> s, err |-> NoErr,
          items |-> PageOf(filtered, page, perPage), total |-> Len(filtered)]

IsEventProcessed(s, eventID) ==
    [store |-> s, err |-> NoErr, processed |-> eventID \in s.processedEvents]

MarkEventProcessed(s, eventID) ==
    [store |-> [s EXCEPT !.processedEvents = @ \cup {eventID}], err |-> NoErr]

(***************************************************************************)
(* internal/eventbus/event.go: events and their payload.  Payload is an    *)
(* interface{}: kind says whether it holds a ReconciliationEvent.          *)
(***************************************************************************)
EventTypeReconciliation == "reconciliation"

ReconciliationEvent(uploadID, tx, lineNumber) ==
    [kind |-> "ReconciliationEvent", UploadID |-> uploadID, Transaction |-> tx,
     LineNumber |-> lineNumber]

Event(id, type, payload) == [ID |-> id, Type |-> type, Payload |-> payload]

\* the zero Event, held by a worker that handles none
NoEvent == Event("", "", ReconciliationEvent("", Tx("", "", 0, ""), 0))

(***************************************************************************)
(* pkg/retry/retry.go: Do, as the worker calls it.                         *)
(***************************************************************************)
\* retry.WithMaxAttempts(5) in processEvent
MaxAttempts == 5

ErrCanceled == "context canceled"
ErrInvalidPayload == "invalid payload type"

(***************************************************************************)
(* internal/eventbus/bus.go                                                *)
(***************************************************************************)
\* Config.ChannelBuffer: the capacity of a type's queue
ChannelBuffer == 1
\* workers over all consumers subscribed
MaxWorkers == 2
\* events put on a queue in one run
MaxPublish == 2
\* events put on the queue of the single worker
MaxSeqPublish == 3
\* consumers subscribed to one bus
MaxSubscriptions == 2
\* records in one CSV stream
MaxRecords == 3
\* the largest MaxAttempts a caller of Do configures: with it Do reaches the
\* attempt at which baseDelay * 2^attempt leaves the 64-bit range
MaxDoAttempts == 36
\* goroutines calling the store at once, and the pairs each of them issues
NCallers == 2
MAdds == 2

CtxActive == "active"
CtxCancelled == "cancelled"

\* a worker goroutine: where it stands, the event it handles, Do's attempt
Worker(eventType, consumer, workerID) ==
    [pc |-> "select", ch |-> eventType, consumer |-> consumer,
     workerID |-> workerID, event |-> NoEvent, attempt |-> 0]

\* the zero value of a map entry that is absent
ConsumersOf(eventType) ==
    IF eventType \in DOMAIN consumers THEN consumers[eventType] ELSE <<>>

\* the workers Start spawns for consumers ci.. of one type
RECURSIVE WorkersOf(_, _, _)
WorkersOf(eventType, cs, ci) ==
    IF ci > Len(cs) THEN <<>>
    ELSE [i \in 1 .. cs[ci].workerCount |-> Worker(eventType, ci, i - 1)]
         \o WorkersOf(eventType, cs, ci + 1)

\* ... and for every type of the set
RECURSIVE SpawnAll(_)
SpawnAll(types) ==
    IF types = {} THEN <<>>
    ELSE LET t == CHOOSE x \in types : TRUE
         IN WorkersOf(t, consumers[t], 1) \o SpawnAll(types \ {t})

Subscribe(eventType, workerCount) ==
    /\ channels' = IF eventType \in DOMAIN channels THEN channels
                   ELSE MapPut(channels, eventType, <<>>)
    /\ consumers' = MapPut(consumers, eventType,
                       Append(ConsumersOf(eventType), [workerCount |-> workerCount]))
    /\ UNCHANGED <<started, busCtx, wg, workers, shutdown, pubRet, accepted>>
    /\ UNCHANGED <<storeVars, exceptBus>>

\* Start without the test of eb.started
Start_Again ==
    /\ LET spawned == SpawnAll(DOMAIN consumers) IN
            /\ busCtx' = CtxActive
            /\ workers' = workers \o spawned
            /\ wg' = wg + Len(spawned)
            /\ started' = TRUE
    /\ UNCHANGED <<channels, consumers, shutdown, pubRet, accepted>>
    /\ UNCHANGED <<storeVars, exceptBus>>

Start ==
    /\ IF started
       THEN UNCHANGED <<started, busCtx, wg, workers>>
       ELSE LET spawned == SpawnAll(DOMAIN consumers) IN
            /\ busCtx' = CtxActive
            /\ workers' = workers \o spawned
            /\ wg' = wg + Len(spawned)
            /\ started' = TRUE
    /\ UNCHANGED <<channels, consumers, shutdown, pubRet, accepted>>
    /\ UNCHANGED <<storeVars, exceptBus>>

PubRet(did, err) == [did |-> did, err |-> err]
NoPub == PubRet("", NoErr)

\* Publish with a select that has no default case: it waits for room
PublishSelect_Blocking(ctxDone, event) ==
    IF event.Type \notin DOMAIN channels
    THEN /\ pubRet' = PubRet("no channel", NoErr)
         /\ UNCHANGED <<channels, accepted>>
    ELSE \/ /\ Len(channels[event.Type]) < ChannelBuffer
            /\ channels' = [channels EXCEPT ![event.Type] = Append(@, event)]
            /\ accepted' = Append(accepted, event)
            /\ pubRet' = PubRet("published", NoErr)
         \/ /\ ctxDone
            /\ pubRet' = PubRet("cancelled", ErrCanceled)
            /\ UNCHANGED <<channels, accepted>>

\* Publish's lookup and select: a send that is ready and a ctx that is done
\* are both eligible, and Go picks either; default runs when neither is
PublishSelect(ctxDone, event) ==
    IF event.Type \notin DOMAIN channels
    THEN /\ pubRet' = PubRet("no channel", NoErr)
         /\ UNCHANGED <<channels, accepted>>
    ELSE \/ /\ Len(channels[event.Type]) < ChannelBuffer
            /\ channels' = [channels EXCEPT ![event.Type] = Append(@, event)]
            /\ accepted' = Append(accepted, event)
            /\ pubRet' = PubRet("published", NoErr)
         \/ /\ ctxDone
            /\ pubRet' = PubRet("cancelled", ErrCanceled)
            /\ UNCHANGED <<channels, accepted>>
         \/ /\ ~(Len(channels[event.Type]) < ChannelBuffer)
            /\ ~ctxDone
            /\ pubRet' = PubRet("dropped", NoErr)
            /\ UNCHANGED <<channels, accepted>>

Publish(ctxDone, event) ==
    /\ PublishSelect(ctxDone, event)
    /\ UNCHANGED <<consumers, started, busCtx, wg, workers, shutdown>>
    /\ UNCHANGED <<storeVars, exceptBus>>

\* Shutdown up to its select: cancel the bus's context if Start derived one
ShutdownCall ==
    /\ shutdown = "idle"
    /\ busCtx' = IF busCtx = Nil THEN Nil ELSE CtxCancelled
    /\ shutdown' = "waiting"
    /\ UNCHANGED <<channels, consumers, started, wg, workers, pubRet, accepted>>
    /\ UNCHANGED <<storeVars, exceptBus>>

\* ShutdownDone returning without waiting for the workers
ShutdownDone_NoWait ==
    /\ shutdown = "waiting"
    /\ shutdown' = "ok"
    /\ UNCHANGED <<channels, consumers, started, busCtx, wg, workers, pubRet, accepted>>
    /\ UNCHANGED <<storeVars, exceptBus>>

\* wg.Wait() returned and done was closed: Shutdown returns nil
ShutdownDone ==
    /\ shutdown = "waiting"
    /\ wg = 0
    /\ shutdown' = "ok"
    /\ UNCHANGED <<channels, consumers, started, busCtx, wg, workers, pubRet, accepted>>
    /\ UNCHANGED <<storeVars, exceptBus>>

\* the caller's ctx is done first: Shutdown returns ctx.Err()
ShutdownTimeout ==
    /\ shutdown = "waiting"
    /\ shutdown' = "timeout"
    /\ UNCHANGED <<channels, consumers, started, busCtx, wg, workers, pubRet, accepted>>
    /\ UNCHANGED <<storeVars, exceptBus>>

\* the steps of worker w leave the rest of the bus alone
WorkerFrame == UNCHANGED <<consumers, started, busCtx, shutdown, pubRet, accepted>>

\* a worker that reads the event at the head of the queue and leaves it there
\* for the workers of the other consumers
WorkerReceive_Peek(w) ==
    /\ workers[w].pc = "select"
    /\ channels[workers[w].ch] # <<>>
    /\ workers' = [workers EXCEPT ![w].pc = "check",
                                  ![w].event = Head(channels[workers[w].ch]),
                                  ![w].attempt = 0]
    /\ UNCHANGED <<channels, wg, storeVars, exceptBus>>
    /\ WorkerFrame

\* a worker taking the event that was queued last
WorkerReceive_Last(w) ==
    /\ workers[w].pc = "select"
    /\ channels[workers[w].ch] # <<>>
    /\ LET q == channels[workers[w].ch] IN
       /\ workers' = [workers EXCEPT ![w].pc = "check",
                                     ![w].event = q[Len(q)],
                                     ![w].attempt = 0]
       /\ channels' = [channels EXCEPT ![workers[w].ch] = SubSeq(q, 1, Len(q) - 1)]
    /\ UNCHANGED <<wg, storeVars, exceptBus>>
    /\ WorkerFrame

\* worker's select, case event := <-ch; processEvent calls Do, Do calls Consume
WorkerReceive(w) ==
    /\ workers[w].pc = "select"
    /\ channels[workers[w].ch] # <<>>
    /\ workers' = [workers EXCEPT ![w].pc = "check",
                                  ![w].event = Head(channels[workers[w].ch]),
                                  ![w].attempt = 0]
    /\ channels' = [channels EXCEPT ![workers[w].ch] = Tail(@)]
    /\ UNCHANGED <<wg, storeVars, exceptBus>>
    /\ WorkerFrame

\* a worker that returns without the deferred wg.Done()
WorkerStop_NoDone(w) ==
    /\ workers[w].pc = "select"
    /\ busCtx = CtxCancelled
    /\ workers' = [workers EXCEPT ![w].pc = "exited"]
    /\ UNCHANGED <<wg, channels, storeVars, exceptBus>>
    /\ WorkerFrame

\* worker's select, case <-ctx.Done(): return, and the deferred wg.Done()
WorkerStop(w) ==
    /\ workers[w].pc = "select"
    /\ busCtx = CtxCancelled
    /\ workers' = [workers EXCEPT ![w].pc = "exited"]
    /\ wg' = wg - 1
    /\ UNCHANGED <<channels, storeVars, exceptBus>>
    /\ WorkerFrame

\* processEvent taking Do's attempts from Config.MaxRetries
AfterConsume_MaxRetries(wk, err) ==
    IF err = NoErr \/ wk.attempt >= main.MaxRetries - 1
    THEN [wk EXCEPT !.pc = "select", !.event = NoEvent, !.attempt = 0]
    ELSE [wk EXCEPT !.pc = "sleep"]

\* Do after Consume returned err, and processEvent after Do: the worker is back
\* at its select when Do returns, asleep when Do backs off
AfterConsume(wk, err) ==
    IF err = NoErr \/ wk.attempt = MaxAttempts - 1
    THEN [wk EXCEPT !.pc = "select", !.event = NoEvent, !.attempt = 0]
    ELSE [wk EXCEPT !.pc = "sleep"]

\* Do's select, case <-time.After(delay): continue with the next attempt
RetrySleepDone(w) ==
    /\ workers[w].pc = "sleep"
    /\ busCtx # CtxCancelled
    /\ workers' = [workers EXCEPT ![w].pc = "check", ![w].attempt = @ + 1]
    /\ UNCHANGED <<channels, wg, storeVars, exceptBus>>
    /\ WorkerFrame

\* Do's select, case <-ctx.Done(): Do returns ctx.Err()
RetryCancelled(w) ==
    /\ workers[w].pc = "sleep"
    /\ busCtx = CtxCancelled
    /\ workers' = [workers EXCEPT ![w].pc = "select", ![w].event = NoEvent,
                                  ![w].attempt = 0]
    /\ UNCHANGED <<channels, wg, storeVars, exceptBus>>
    /\ WorkerFrame

(***************************************************************************)
(* internal/eventbus/reconciliation_consumer.go: Consume, one repository   *)
(* call a step.                                                            *)
(***************************************************************************)
\* Consume up to the payload's type assertion, without the idempotency check
ConsumeCheck_NoSkip(w) ==
    LET wk == workers[w] IN
    /\ wk.pc = "check"
    /\ workers' = [workers EXCEPT ![w] =
          IF wk.event.Payload.kind # "ReconciliationEvent"
          THEN AfterConsume(wk, ErrInvalidPayload)
          ELSE [wk EXCEPT !.pc = "add"]]
    /\ UNCHANGED <<channels, wg, storeVars, exceptBus>>
    /\ WorkerFrame

\* Consume without the payload's type assertion
ConsumeCheck_NoAssert(w) ==
    LET wk == workers[w]
        r == IsEventProcessed(Store, wk.event.ID)
    IN
    /\ wk.pc = "check"
    /\ workers' = [workers EXCEPT ![w] =
          IF r.err # NoErr THEN AfterConsume(wk, r.err)
          ELSE IF r.processed THEN AfterConsume(wk, NoErr)
          ELSE [wk EXCEPT !.pc = "add"]]
    /\ SetStore(r.store)
    /\ UNCHANGED <<channels, wg, exceptBus>>
    /\ WorkerFrame

\* IsEventProcessed, the early return and the payload's type assertion
ConsumeCheck(w) ==
    LET wk == workers[w]
        r == IsEventProcessed(Store, wk.event.ID)
    IN
    /\ wk.pc = "check"
    /\ workers' = [workers EXCEPT ![w] =
          IF r.err # NoErr THEN AfterConsume(wk, r.err)
          ELSE IF r.processed THEN AfterConsume(wk, NoErr)
          ELSE IF wk.event.Payload.kind # "ReconciliationEvent"
          THEN AfterConsume(wk, ErrInvalidPayload)
          ELSE [wk EXCEPT !.pc = "add"]]
    /\ SetStore(r.store)
    /\ UNCHANGED <<channels, wg, exceptBus>>
    /\ WorkerFrame

\* Consume marking the event before it adds the row
ConsumeAdd_MarkFirst(w) ==
    LET wk == workers[w]
        r == MarkEventProcessed(Store, wk.event.ID)
    IN
    /\ wk.pc = "add"
    /\ workers' = [workers EXCEPT ![w] =
          IF r.err # NoErr THEN AfterConsume(wk, r.err)
          ELSE [wk EXCEPT !.pc = "mark"]]
    /\ SetStore(r.store)
    /\ UNCHANGED <<channels, wg, exceptBus>>
    /\ WorkerFrame

\* Consume going on to MarkEventProcessed whatever AddTransaction returned
ConsumeAdd_IgnoreErr(w) ==
    LET wk == workers[w]
        payload == wk.event.Payload
        r == AddTransaction(Store, payload.UploadID, payload.Transaction,
                            payload.LineNumber)
    IN
    /\ wk.pc = "add"
    /\ workers' = [workers EXCEPT ![w] = [wk EXCEPT !.pc = "mark"]]
    /\ SetStore(r.store)
    /\ UNCHANGED <<channels, wg, exceptBus>>
    /\ WorkerFrame

\* AddTransaction, its error returned
ConsumeAdd(w) ==
    LET wk == workers[w]
        payload == wk.event.Payload
        r == AddTransaction(Store, payload.UploadID, payload.Transaction,
                            payload.LineNumber)
    IN
    /\ wk.pc = "add"
    /\ workers' = [workers EXCEPT ![w] =
          IF r.err # NoErr THEN AfterConsume(wk, r.err)
          ELSE [wk EXCEPT !.pc = "mark"]]
    /\ SetStore(r.store)
    /\ UNCHANGED <<channels, wg, exceptBus>>
    /\ WorkerFrame

ConsumeMark(w) ==
    LET wk == workers[w]
        r == MarkEventProcessed(Store, wk.event.ID)
    IN
    /\ wk.pc = "mark"
    /\ workers' = [workers EXCEPT ![w] =
          IF r.err # NoErr THEN AfterConsume(wk, r.err)
          ELSE [wk EXCEPT !.pc = "inc"]]
    /\ SetStore(r.store)
    /\ UNCHANGED <<channels, wg, exceptBus>>
    /\ WorkerFrame

\* IncrementProcessedRows, its error only logged, and return nil
ConsumeInc(w) ==
    LET wk == workers[w]
        r == IncrementProcessedRows(Store, wk.event.Payload.UploadID)
    IN
    /\ wk.pc = "inc"
    /\ workers' = [workers EXCEPT ![w] = AfterConsume(wk, NoErr)]
    /\ SetStore(r.store)
    /\ UNCHANGED <<channels, wg, exceptBus>>
    /\ WorkerFrame

\* the bus as New returns it
BusNew ==
    /\ channels = EmptyMap
    /\ consumers = EmptyMap
    /\ started = FALSE
    /\ busCtx = Nil
    /\ wg = 0
    /\ workers = <<>>
    /\ shutdown = "idle"
    /\ pubRet = NoPub
    /\ accepted = <<>>

\* the test goroutines, none running
NoCallers == callers = <<>>

(***************************************************************************)
(* A client of the repository: one call at a time, the result kept in ret. *)
(***************************************************************************)
Ret(op, id, r) ==
    [op |-> op, id |-> id, err |-> r.err,
     upload |-> IF "upload" \in DOMAIN r THEN r.upload ELSE Nil,
     balance |-> IF "balance" \in DOMAIN r THEN r.balance ELSE 0,
     items |-> IF "items" \in DOMAIN r THEN r.items ELSE <<>>,
     total |-> IF "total" \in DOMAIN r THEN r.total ELSE 0,
     processed |-> IF "processed" \in DOMAIN r THEN r.processed ELSE FALSE]

NoRet == Ret("", "", [err |-> NoErr])

TotalRows(s) ==
    LET RECURSIVE Sum(_)
        Sum(ids) == IF ids = {} THEN 0
                    ELSE LET id == CHOOSE x \in ids : TRUE
                         IN Len(s.transactions[id]) + Sum(ids \ {id})
    IN Sum(DOMAIN s.transactions)

CallCreateUpload(id) ==
    LET r == CreateUpload(Store, id) IN
    SetStore(r.store) /\ ret' = Ret("CreateUpload", id, r) /\ UNCHANGED exceptClient

CallGetUpload(id) ==
    LET r == GetUpload(Store, id) IN
    SetStore(r.store) /\ ret' = Ret("GetUpload", id, r) /\ UNCHANGED exceptClient

CallUpdateUploadStatus(id, status) ==
    LET r == UpdateUploadStatus(Store, id, status) IN
    SetStore(r.store) /\ ret' = Ret("UpdateUploadStatus", id, r) /\ UNCHANGED exceptClient

CallIncrementProcessedRows(id) ==
    LET r == IncrementProcessedRows(Store, id) IN
    SetStore(r.store) /\ ret' = Ret("IncrementProcessedRows", id, r) /\ UNCHANGED exceptClient

CallAddTransaction(id, tx, line) ==
    LET r == AddTransaction(Store, id, tx, line) IN
    SetStore(r.store) /\ ret' = Ret("AddTransaction", id, r) /\ UNCHANGED exceptClient

CallGetBalance(id) ==
    LET r == GetBalance(Store, id) IN
    SetStore(r.store) /\ ret' = Ret("GetBalance", id, r) /\ UNCHANGED exceptClient

CallGetIssues(id, page, perPage, status) ==
    LET r == GetIssues(Store, id, page, perPage, status) IN
    SetStore(r.store) /\ ret' = Ret("GetIssues", id, r) /\ UNCHANGED exceptClient

CallIsEventProcessed(e) ==
    LET r == IsEventProcessed(Store, e) IN
    SetStore(r.store) /\ ret' = Ret("IsEventProcessed", e, r) /\ UNCHANGED exceptClient

CallMarkEventProcessed(e) ==
    LET r == MarkEventProcessed(Store, e) IN
    SetStore(r.store) /\ ret' = Ret("MarkEventProcessed", e, r) /\ UNCHANGED exceptClient

StoreInit ==
    /\ uploads = NewMemoryStore.uploads
    /\ transactions = NewMemoryStore.transactions
    /\ processedEvents = NewMemoryStore.processedEvents
    /\ ret = NoRet
    /\ BusNew
    /\ NoCallers
    /\ Idle

\* the guards that keep the rows and the counter within the bounds
RoomForRow(max) == TotalRows(Store) < max
RoomToCount(id) == id \in DOMAIN uploads => uploads[id].ProcessedRows < MaxProcessed

(***************************************************************************)
(* SpecStore: a client calling every method of the repository, in any      *)
(* order, on ids that exist and ids that do not.                           *)
(***************************************************************************)
StoreNext ==
    \/ \E id \in UploadIds : CallCreateUpload(id)
    \/ \E id \in UploadIds : CallGetUpload(id)
    \/ \E id \in UploadIds, st \in UploadStatuses : CallUpdateUploadStatus(id, st)
    \/ \E id \in UploadIds : RoomToCount(id) /\ CallIncrementProcessedRows(id)
    \/ \E id \in UploadIds, r \in StoreRows :
            RoomForRow(MaxStoreRows) /\ CallAddTransaction(id, r.tx, r.line)
    \/ \E id \in UploadIds : CallGetBalance(id)
    \/ \E id \in UploadIds, f \in StatusFilters : CallGetIssues(id, 1, 1, f)
    \/ \E e \in EventIds : CallIsEventProcessed(e)
    \/ \E e \in EventIds : CallMarkEventProcessed(e)

SpecStore == StoreInit /\ [][StoreNext]_vars

(***************************************************************************)
(* SpecLedger: a client that creates uploads, adds rows and reads the      *)
(* balance and the issues, page by page.                                   *)
(***************************************************************************)
LedgerIds == {"u1"}

LedgerNext ==
    \/ \E id \in LedgerIds : CallCreateUpload(id)
    \/ \E id \in LedgerIds, r \in LedgerRows :
            RoomForRow(MaxRows) /\ CallAddTransaction(id, r.tx, r.line)
    \/ \E id \in LedgerIds : CallGetBalance(id)
    \/ \E id \in LedgerIds, pg \in Pages, pp \in PerPages, f \in StatusFilters :
            CallGetIssues(id, pg, pp, f)

SpecLedger == StoreInit /\ [][LedgerNext]_vars

(***************************************************************************)
(* The events the bus is given: two with one id and different rows, and    *)
(* one for an upload that does not exist.                                  *)
(***************************************************************************)
EvA == Event("e1", EventTypeReconciliation, ReconciliationEvent("u1", JaneDoe, 2))
EvB == Event("e1", EventTypeReconciliation, ReconciliationEvent("u1", BobSmith, 3))
EvC == Event("e2", EventTypeReconciliation, ReconciliationEvent("u1", AliceWonder, 4))
EvMissing ==
    Event("e2", EventTypeReconciliation, ReconciliationEvent("u2", JohnDoe, 1))

BusEvents == {EvA, EvB, EvMissing}
SeqEvents == {EvA, EvB, EvC}

\* the store once upload u1 was created
StoreWithUpload ==
    /\ uploads = CreateUpload(NewMemoryStore, "u1").store.uploads
    /\ transactions = CreateUpload(NewMemoryStore, "u1").store.transactions
    /\ processedEvents = CreateUpload(NewMemoryStore, "u1").store.processedEvents

(***************************************************************************)
(* SpecBus: a bus built by New, then subscribed to by one consumer (as     *)
(* main wires it), started, published to and shut down in any order, its  *)
(* workers consuming into a store that holds upload u1.                    *)
(***************************************************************************)
BusInit ==
    /\ StoreWithUpload
    /\ ret = NoRet
    /\ BusNew
    /\ NoCallers
    /\ Idle

BusNext ==
    \/ \E n \in 1 .. MaxWorkers :
          ConsumersOf(EventTypeReconciliation) = <<>>
             /\ Subscribe(EventTypeReconciliation, n)
    \/ Start
    \/ \E ev \in BusEvents, ctxDone \in BOOLEAN :
          Len(accepted) < MaxPublish /\ Publish(ctxDone, ev)
    \/ ShutdownCall
    \/ ShutdownDone
    \/ ShutdownTimeout
    \/ \E w \in DOMAIN workers : WorkerReceive(w)
    \/ \E w \in DOMAIN workers : WorkerStop(w)
    \/ \E w \in DOMAIN workers : RetrySleepDone(w)
    \/ \E w \in DOMAIN workers : RetryCancelled(w)
    \/ \E w \in DOMAIN workers : ConsumeCheck(w)
    \/ \E w \in DOMAIN workers : ConsumeAdd(w)
    \/ \E w \in DOMAIN workers : ConsumeMark(w)
    \/ \E w \in DOMAIN workers : ConsumeInc(w)

SpecBus == BusInit /\ [][BusNext]_vars

(***************************************************************************)
(* SpecSeq: one consumer with one worker, started; the events published    *)
(* are consumed one after the other.                                       *)
(***************************************************************************)
SeqInit ==
    /\ StoreWithUpload
    /\ ret = NoRet
    /\ channels = MapPut(EmptyMap, EventTypeReconciliation, <<>>)
    /\ consumers = MapPut(EmptyMap, EventTypeReconciliation, <<[workerCount |-> 1]>>)
    /\ started = TRUE
    /\ busCtx = CtxActive
    /\ wg = 1
    /\ workers = <<Worker(EventTypeReconciliation, 1, 0)>>
    /\ shutdown = "idle"
    /\ pubRet = NoPub
    /\ accepted = <<>>
    /\ NoCallers
    /\ Idle

SeqNext ==
    \/ \E ev \in SeqEvents, ctxDone \in BOOLEAN :
          Len(accepted) < MaxSeqPublish /\ Publish(ctxDone, ev)
    \/ \E w \in DOMAIN workers : WorkerReceive(w)
    \/ \E w \in DOMAIN workers : ConsumeCheck(w)
    \/ \E w \in DOMAIN workers : ConsumeAdd(w)
    \/ \E w \in DOMAIN workers : ConsumeMark(w)
    \/ \E w \in DOMAIN workers : ConsumeInc(w)

SpecSeq == SeqInit /\ [][SeqNext]_vars

(***************************************************************************)
(* SpecFail: the single worker given events whose Consume fails: one with  *)
(* a payload that is no ReconciliationEvent, one for upload u2, which the  *)
(* repository does not hold until a request creates it.  Do retries each   *)
(* of them after its backoff.                                              *)
(***************************************************************************)
\* an event whose Payload holds a value of another type with the same fields
EvPoison ==
    Event("e1", EventTypeReconciliation,
          [kind |-> "*ReconciliationEvent", UploadID |-> "u1",
           Transaction |-> JohnDoe, LineNumber |-> 1])

FailEvents == {EvA, EvMissing, EvPoison}

FailNext ==
    \/ \E ev \in FailEvents, ctxDone \in BOOLEAN :
          Len(accepted) < MaxPublish /\ Publish(ctxDone, ev)
    \/ "u2" \notin DOMAIN uploads /\ CallCreateUpload("u2")
    \/ \E w \in DOMAIN workers : WorkerReceive(w)
    \/ \E w \in DOMAIN workers : RetrySleepDone(w)
    \/ \E w \in DOMAIN workers : ConsumeCheck(w)
    \/ \E w \in DOMAIN workers : ConsumeAdd(w)
    \/ \E w \in DOMAIN workers : ConsumeMark(w)
    \/ \E w \in DOMAIN workers : ConsumeInc(w)

SpecFail == SeqInit /\ [][FailNext]_vars

(***************************************************************************)
(* SpecDrain: a started bus with one consumer of one or more workers,      *)
(* published to a bounded number of times and shut down once.              *)
(* SpecDrainFair adds the scheduling: a goroutine that can take a step     *)
(* takes one, and Shutdown's own select takes a case that is ready.        *)
(***************************************************************************)
\* an event that is applied and one that fails on every attempt
DrainEvents == {EvA, EvMissing}

DrainInit ==
    /\ StoreWithUpload
    /\ ret = NoRet
    /\ channels = MapPut(EmptyMap, EventTypeReconciliation, <<>>)
    /\ \E n \in 1 .. MaxWorkers :
          /\ consumers = MapPut(EmptyMap, EventTypeReconciliation,
                                <<[workerCount |-> n]>>)
          /\ wg = n
          /\ workers = [i \in 1 .. n |-> Worker(EventTypeReconciliation, 1, i - 1)]
    /\ started = TRUE
    /\ busCtx = CtxActive
    /\ shutdown = "idle"
    /\ pubRet = NoPub
    /\ accepted = <<>>
    /\ NoCallers
    /\ Idle

\* the steps of worker goroutine w, Do's backoff included
WorkerRun(w) ==
    /\ w \in DOMAIN workers
    /\ \/ WorkerReceive(w)
       \/ WorkerStop(w)
       \/ RetrySleepDone(w)
       \/ RetryCancelled(w)
       \/ ConsumeCheck(w)
       \/ ConsumeAdd(w)
       \/ ConsumeMark(w)
       \/ ConsumeInc(w)

DrainNext ==
    \/ \E ev \in DrainEvents :
          Len(accepted) < MaxPublish /\ Publish(FALSE, ev)
    \/ ShutdownCall
    \/ ShutdownDone
    \/ ShutdownTimeout
    \/ \E w \in DOMAIN workers : WorkerReceive(w)
    \/ \E w \in DOMAIN workers : WorkerStop(w)
    \/ \E w \in DOMAIN workers : RetrySleepDone(w)
    \/ \E w \in DOMAIN workers : RetryCancelled(w)
    \/ \E w \in DOMAIN workers : ConsumeCheck(w)
    \/ \E w \in DOMAIN workers : ConsumeAdd(w)
    \/ \E w \in DOMAIN workers : ConsumeMark(w)
    \/ \E w \in DOMAIN workers : ConsumeInc(w)

SpecDrain == DrainInit /\ [][DrainNext]_vars

SpecDrainFair ==
    /\ SpecDrain
    /\ \A w \in 1 .. MaxWorkers : WF_vars(WorkerRun(w))
    /\ WF_vars(ShutdownDone \/ ShutdownTimeout)

(***************************************************************************)
(* SpecRetries: SpecFail with main's cfg.Worker.MaxRetries, which main     *)
(* hands to eventbus.New as Config.MaxRetries.  New copies ChannelBuffer   *)
(* into the bus and nothing else: the bus has no field for MaxRetries.     *)
(***************************************************************************)
RetryConfigs == {0, 1, 3, 10}

\* the eventBus New returns for cfg, as far as cfg decides it
New(cfg) == [channelBuffer |-> cfg.ChannelBuffer]

RetriesInit ==
    /\ StoreWithUpload
    /\ ret = NoRet
    /\ channels = MapPut(EmptyMap, EventTypeReconciliation, <<>>)
    /\ consumers = MapPut(EmptyMap, EventTypeReconciliation, <<[workerCount |-> 1]>>)
    /\ started = TRUE
    /\ busCtx = CtxActive
    /\ wg = 1
    /\ workers = <<Worker(EventTypeReconciliation, 1, 0)>>
    /\ shutdown = "idle"
    /\ pubRet = NoPub
    /\ accepted = <<>>
    /\ NoCallers
    /\ NoDo
    /\ NoProc
    /\ NoSvc
    /\ \E n \in RetryConfigs :
          main = [pc |-> "quit", cancelled |-> {}, MaxRetries |-> n]

SpecRetries == RetriesInit /\ [][FailNext]_vars

(***************************************************************************)
(* SpecMark: the single worker with a repository whose MarkEventProcessed  *)
(* may answer an error.  The consumer holds the interface                  *)
(* domain.Repository; a call that fails leaves the store as it was.        *)
(***************************************************************************)
ErrMark == "mark failed"

EvJohn == Event("e2", EventTypeReconciliation, ReconciliationEvent("u1", JohnDoe, 1))

MarkEvents == {EvA, EvJohn}

\* a repository that takes the row back when MarkEventProcessed fails
ConsumeMarkFails_Rollback(w) ==
    LET wk == workers[w]
        rows == transactions[wk.event.Payload.UploadID]
    IN
    /\ wk.pc = "mark"
    /\ workers' = [workers EXCEPT ![w] = AfterConsume(wk, ErrMark)]
    /\ transactions' = [transactions EXCEPT ![wk.event.Payload.UploadID] =
                           SubSeq(rows, 1, Len(rows) - 1)]
    /\ UNCHANGED <<uploads, processedEvents>>
    /\ UNCHANGED <<channels, wg, exceptBus>>
    /\ WorkerFrame

\* MarkEventProcessed returns an error: Consume logs it and returns it
ConsumeMarkFails(w) ==
    LET wk == workers[w] IN
    /\ wk.pc = "mark"
    /\ workers' = [workers EXCEPT ![w] = AfterConsume(wk, ErrMark)]
    /\ UNCHANGED <<channels, wg, storeVars, exceptBus>>
    /\ WorkerFrame

MarkNext ==
    \/ \E ev \in MarkEvents, ctxDone \in BOOLEAN :
          Len(accepted) < MaxPublish /\ Publish(ctxDone, ev)
    \/ \E w \in DOMAIN workers : WorkerReceive(w)
    \/ \E w \in DOMAIN workers : RetrySleepDone(w)
    \/ \E w \in DOMAIN workers : ConsumeCheck(w)
    \/ \E w \in DOMAIN workers : ConsumeAdd(w)
    \/ \E w \in DOMAIN workers : ConsumeMark(w)
    \/ \E w \in DOMAIN workers : ConsumeMarkFails(w)
    \/ \E w \in DOMAIN workers : ConsumeInc(w)

SpecMark == SeqInit /\ [][MarkNext]_vars

(***************************************************************************)
(* SpecCompete: two consumers subscribed to the reconciliation type, each  *)
(* with one worker, the bus started: Subscribe made the type's channel     *)
(* once, Start handed it to the workers of both.  Every event is published *)
(* once.                                                                   *)
(***************************************************************************)
EvBob == Event("e3", EventTypeReconciliation, ReconciliationEvent("u1", BobSmith, 3))

CompeteEvents == {EvA, EvJohn, EvBob}

\* the events of a queue, as a set
Queued(q) == {q[i] : i \in DOMAIN q}

CompeteInit ==
    /\ StoreWithUpload
    /\ ret = NoRet
    /\ channels = MapPut(EmptyMap, EventTypeReconciliation, <<>>)
    /\ consumers = MapPut(EmptyMap, EventTypeReconciliation,
                          <<[workerCount |-> 1], [workerCount |-> 1]>>)
    /\ started = TRUE
    /\ busCtx = CtxActive
    /\ workers = WorkersOf(EventTypeReconciliation,
                           consumers[EventTypeReconciliation], 1)
    /\ wg = Len(workers)
    /\ shutdown = "idle"
    /\ pubRet = NoPub
    /\ accepted = <<>>
    /\ NoCallers
    /\ Idle

CompeteNext ==
    \/ \E ev \in CompeteEvents :
          ev \notin Queued(accepted) /\ Publish(FALSE, ev)
    \/ \E w \in DOMAIN workers : WorkerReceive(w)
    \/ \E w \in DOMAIN workers : ConsumeCheck(w)
    \/ \E w \in DOMAIN workers : ConsumeAdd(w)
    \/ \E w \in DOMAIN workers : ConsumeMark(w)
    \/ \E w \in DOMAIN workers : ConsumeInc(w)

SpecCompete == CompeteInit /\ [][CompeteNext]_vars

(***************************************************************************)
(* time.Duration: a 64-bit two's complement integer, here the set of the   *)
(* positions of its 1 bits (bit 63 is the sign).  The sets of the          *)
(* unbounded operators are the naturals they would be without a width.     *)
(***************************************************************************)
WordBits == 64
Word == 0 .. (WordBits - 1)

RECURSIVE Pow2(_)
Pow2(n) == IF n = 0 THEN 1 ELSE 2 * Pow2(n - 1)

\* the bits of a natural below 2^31
BitsOf(n) == {i \in 0 .. 30 : (n \div Pow2(i)) % 2 = 1}

Shl(x, k) == {b + k : b \in x}
Wrap(x) == x \cap Word

\* the sum of two naturals: add without carry, then add the carries
RECURSIVE Plus(_, _)
Plus(x, y) ==
    IF y = {} THEN x
    ELSE Plus((x \ y) \cup (y \ x), Shl(x \cap y, 1))

\* the product of two naturals, one shifted copy of x for each bit of y
RECURSIVE Times(_, _)
Times(x, y) ==
    IF y = {} THEN {}
    ELSE LET b == CHOOSE i \in y : TRUE IN Plus(Shl(x, b), Times(x, y \ {b}))

\* Go's * and << on int64: the low 64 bits of the result
Mul64(x, y) == Wrap(Times(x, y))
ShiftLeftOne(k) == IF k < WordBits THEN {k} ELSE {}

MaxBit(x) == CHOOSE b \in x : \A c \in x : c <= b

\* x > y on naturals, and on int64
NatGt(x, y) ==
    LET d == (x \ y) \cup (y \ x) IN d # {} /\ MaxBit(d) \in x
IsNegative(x) == (WordBits - 1) \in x
Gt64(x, y) ==
    IF IsNegative(x) # IsNegative(y) THEN IsNegative(y) ELSE NatGt(x, y)

\* time.Second in nanoseconds
Second == 1000000000
Seconds(n) == Times(BitsOf(n), BitsOf(Second))

(***************************************************************************)
(* pkg/retry/retry.go: Do and calculateBackoff.                            *)
(***************************************************************************)
DefaultMaxAttempts == 5
DefaultBaseDelaySeconds == 1
DefaultMaxDelaySeconds == 30

DefaultConfig ==
    [MaxAttempts |-> DefaultMaxAttempts,
     BaseDelay |-> Seconds(DefaultBaseDelaySeconds),
     MaxDelay |-> Seconds(DefaultMaxDelaySeconds)]

WithMaxAttempts(c, attempts) == [c EXCEPT !.MaxAttempts = attempts]

calculateBackoff(attempt, baseDelay, maxDelay) ==
    LET delay == Mul64(baseDelay, ShiftLeftOne(attempt))
    IN IF Gt64(delay, maxDelay) THEN maxDelay ELSE delay

\* fmt.Errorf("max retries (%d) exceeded: %w", cfg.MaxAttempts, lastErr)
MaxRetriesErr(attempts, lastErr) ==
    "max retries (" \o ToString(attempts) \o ") exceeded: " \o lastErr

\* the errors the operation given to Do returns
OpErrs == {"op failed", "op failed again"}

\* a call of Do about to test its loop condition; calls counts the invocations
\* of fn, late those made after one returned nil
DoFrame(cfg, ctxDone) ==
    [pc |-> "loop", cfg |-> cfg, attempt |-> 0, lastErr |-> NoErr, delay |-> {},
     ret |-> NoErr, ctxDone |-> ctxDone, calls |-> 0, succeeded |-> FALSE,
     late |-> 0]

DoFrameVars == UNCHANGED <<storeVars, ret, busVars, callers, proc, svc, main>>

\* one pass of the loop body up to the select: fn() and what follows from err
DoAttempt(err) ==
    /\ do # <<>>
    /\ do.pc = "loop"
    /\ do.attempt < do.cfg.MaxAttempts
    /\ LET called == [do EXCEPT !.calls = @ + 1,
                                !.late = IF do.succeeded THEN @ + 1 ELSE @]
       IN do' =
            IF err = NoErr
            THEN [called EXCEPT !.pc = "done", !.ret = NoErr, !.succeeded = TRUE]
            ELSE IF do.attempt = do.cfg.MaxAttempts - 1
            THEN [called EXCEPT !.pc = "done", !.lastErr = err,
                                !.ret = MaxRetriesErr(do.cfg.MaxAttempts, err)]
            ELSE [called EXCEPT !.pc = "sleep", !.lastErr = err,
                                !.delay = calculateBackoff(do.attempt,
                                              do.cfg.BaseDelay, do.cfg.MaxDelay)]
    /\ DoFrameVars

\* the loop condition is false: return lastErr
DoLoopEnd ==
    /\ do # <<>>
    /\ do.pc = "loop"
    /\ ~(do.attempt < do.cfg.MaxAttempts)
    /\ do' = [do EXCEPT !.pc = "done", !.ret = do.lastErr]
    /\ DoFrameVars

\* a timer of a duration that is not positive is ready when the select runs
TimerReadyAtOnce(delay) == delay = {} \/ IsNegative(delay)

\* the select, case <-time.After(delay): continue.  When ctx is done the case
\* can be taken only if the timer is ready as well, and then Go picks either
DoSleepDone ==
    /\ do # <<>>
    /\ do.pc = "sleep"
    /\ ~do.ctxDone \/ TimerReadyAtOnce(do.delay)
    /\ do' = [do EXCEPT !.pc = "loop", !.attempt = @ + 1]
    /\ DoFrameVars

\* the select, case <-ctx.Done(): return ctx.Err()
DoCancelled ==
    /\ do # <<>>
    /\ do.pc = "sleep"
    /\ do.ctxDone
    /\ do' = [do EXCEPT !.pc = "done", !.ret = ErrCanceled]
    /\ DoFrameVars

\* the caller's ctx is cancelled while Do runs
DoCtxCancel ==
    /\ do # <<>>
    /\ do.pc # "done"
    /\ ~do.ctxDone
    /\ do' = [do EXCEPT !.ctxDone = TRUE]
    /\ DoFrameVars

(***************************************************************************)
(* SpecRetry: Do called with WithMaxAttempts(n), n from 0 to               *)
(* MaxDoAttempts, a ctx that is cancelled before the call, during it or    *)
(* never, and an operation that fails or succeeds at every invocation.     *)
(***************************************************************************)
RetryInit ==
    /\ uploads = NewMemoryStore.uploads
    /\ transactions = NewMemoryStore.transactions
    /\ processedEvents = NewMemoryStore.processedEvents
    /\ ret = NoRet
    /\ BusNew
    /\ NoCallers
    /\ NoProc
    /\ NoSvc
    /\ AtQuit
    /\ \E n \in 0 .. MaxDoAttempts, ctxDone \in BOOLEAN :
          do = DoFrame(WithMaxAttempts(DefaultConfig, n), ctxDone)

RetryNext ==
    \/ \E err \in {NoErr} \cup OpErrs : DoAttempt(err)
    \/ DoLoopEnd
    \/ DoSleepDone
    \/ DoCancelled
    \/ DoCtxCancel

SpecRetry == RetryInit /\ [][RetryNext]_vars

(***************************************************************************)
(* internal/service/csv_processor.go: ProcessStream and parseTransaction.  *)
(* A stream is the sequence of its records, a record the sequence of its   *)
(* fields.  Of the strings only those of the streams below are parsed.     *)
(***************************************************************************)
\* strconv.ParseInt(s, 10, 64) on the numerals that occur
Numerals ==
    ("1674507883" :> 1674507883) @@ ("1674507884" :> 1674507884) @@
    ("1674507885" :> 1674507885) @@ ("1674507886" :> 1674507886) @@
    ("250000" :> 250000) @@ ("500000" :> 500000) @@
    ("100000" :> 100000) @@ ("300000" :> 300000)

ParseInt(str) ==
    IF str \in DOMAIN Numerals
    THEN [err |-> NoErr, val |-> Numerals[str]]
    ELSE [err |-> "invalid syntax", val |-> 0]

\* strings.TrimSpace and strings.ToUpper on the strings that occur
Spaced == (" 250000" :> "250000") @@ ("SUCCESS " :> "SUCCESS")
TrimSpace(str) == IF str \in DOMAIN Spaced THEN Spaced[str] ELSE str

LowerCase ==
    ("credit" :> "CREDIT") @@ ("debit" :> "DEBIT") @@ ("success" :> "SUCCESS") @@
    ("failed" :> "FAILED") @@ ("pending" :> "PENDING")
ToUpper(str) == IF str \in DOMAIN LowerCase THEN LowerCase[str] ELSE str

NoTx == Tx("", "", 0, "")

parseTransaction(record) ==
    IF Len(record) # 6
    THEN [err |-> "invalid record format", tx |-> NoTx]
    ELSE IF ParseInt(TrimSpace(record[1])).err # NoErr
    THEN [err |-> "invalid timestamp", tx |-> NoTx]
    ELSE IF ParseInt(TrimSpace(record[4])).err # NoErr
    THEN [err |-> "invalid amount", tx |-> NoTx]
    ELSE LET txType == TrimSpace(ToUpper(record[3]))
             status == TrimSpace(ToUpper(record[5]))
         IN IF txType \notin TransactionTypes
            THEN [err |-> "invalid transaction type", tx |-> NoTx]
            ELSE IF status \notin TransactionStatuses
            THEN [err |-> "invalid status", tx |-> NoTx]
            ELSE [err |-> NoErr,
                  tx |-> Tx(TrimSpace(record[2]), txType,
                            ParseInt(TrimSpace(record[4])).val, status)]

\* csv.Reader.Read with FieldsPerRecord 0, as csv.NewReader leaves it: the
\* first record sets the field count, a later record with another count is
\* returned with csv.ErrFieldCount
ErrFieldCount == "wrong number of fields"

csvRead(fieldsPerRecord, record) ==
    IF fieldsPerRecord = 0
    THEN [err |-> NoErr, fieldsPerRecord |-> Len(record)]
    ELSE IF Len(record) # fieldsPerRecord
    THEN [err |-> ErrFieldCount, fieldsPerRecord |-> fieldsPerRecord]
    ELSE [err |-> NoErr, fieldsPerRecord |-> fieldsPerRecord]

\* fmt.Sprintf("%s-%d", uploadID, lineNumber)
EventID(uploadID, lineNumber) == uploadID \o "-" \o ToString(lineNumber)

\* the status ProcessStream gives the upload after the loop, with one error
\* among the records enough to fail it
FinalStatus_AnyError(errorCount, successCount) ==
    IF errorCount > 0 THEN UploadStatusFailed ELSE UploadStatusCompleted

\* the status ProcessStream gives the upload after the loop
FinalStatus(errorCount, successCount) ==
    IF errorCount > 0 /\ successCount = 0
    THEN UploadStatusFailed ELSE UploadStatusCompleted

\* a run of ProcessStream before its loop; pos counts the records consumed,
\* published holds the events for which Publish returned nil
ProcFrame(uploadID, input, ctxDone) ==
    [pc |-> "loop", uploadID |-> uploadID, input |-> input, pos |-> 0,
     fieldsPerRecord |-> 0, lineNumber |-> 0, successCount |-> 0,
     errorCount |-> 0, published |-> <<>>, ctxDone |-> ctxDone]

ProcFrameVars ==
    UNCHANGED <<ret, consumers, started, busCtx, wg, workers, shutdown, callers,
                do, svc, main>>

\* one pass of the loop with lineNumber++ after the record is parsed
ProcIteration_CountParsed(id) ==
    /\ id \in DOMAIN proc
    /\ proc[id].pc = "loop"
    /\ proc[id].pos < Len(proc[id].input)
    /\ LET f == proc[id]
           record == f.input[f.pos + 1]
           rd == csvRead(f.fieldsPerRecord, record)
           read == [f EXCEPT !.pos = @ + 1, !.fieldsPerRecord = rd.fieldsPerRecord]
           p == parseTransaction(record)
           n == f.lineNumber + 1
           event == Event(EventID(f.uploadID, n), EventTypeReconciliation,
                          ReconciliationEvent(f.uploadID, p.tx, n))
       IN IF rd.err # NoErr \/ p.err # NoErr
          THEN /\ proc' = [proc EXCEPT ![id] = [read EXCEPT !.errorCount = @ + 1]]
               /\ UNCHANGED <<channels, accepted, pubRet>>
          ELSE /\ PublishSelect(f.ctxDone, event)
               /\ proc' = [proc EXCEPT ![id] =
                     IF pubRet'.err # NoErr
                     THEN [read EXCEPT !.lineNumber = n, !.errorCount = @ + 1]
                     ELSE [read EXCEPT !.lineNumber = n, !.successCount = @ + 1,
                                       !.published = Append(@, event)]]
    /\ UNCHANGED storeVars
    /\ ProcFrameVars

\* one pass of the loop: Read, lineNumber++, parseTransaction, Publish
ProcIteration(id) ==
    /\ id \in DOMAIN proc
    /\ proc[id].pc = "loop"
    /\ proc[id].pos < Len(proc[id].input)
    /\ LET f == proc[id]
           record == f.input[f.pos + 1]
           rd == csvRead(f.fieldsPerRecord, record)
           read == [f EXCEPT !.pos = @ + 1, !.fieldsPerRecord = rd.fieldsPerRecord]
           n == f.lineNumber + 1
           counted == [read EXCEPT !.lineNumber = n]
           p == parseTransaction(record)
           event == Event(EventID(f.uploadID, n), EventTypeReconciliation,
                          ReconciliationEvent(f.uploadID, p.tx, n))
       IN IF rd.err # NoErr
          THEN /\ proc' = [proc EXCEPT ![id] = [read EXCEPT !.errorCount = @ + 1]]
               /\ UNCHANGED <<channels, accepted, pubRet>>
          ELSE IF p.err # NoErr
          THEN /\ proc' = [proc EXCEPT ![id] = [counted EXCEPT !.errorCount = @ + 1]]
               /\ UNCHANGED <<channels, accepted, pubRet>>
          ELSE /\ PublishSelect(f.ctxDone, event)
               /\ proc' = [proc EXCEPT ![id] =
                     IF pubRet'.err # NoErr
                     THEN [counted EXCEPT !.errorCount = @ + 1]
                     ELSE [counted EXCEPT !.successCount = @ + 1,
                                          !.published = Append(@, event)]]
    /\ UNCHANGED storeVars
    /\ ProcFrameVars

\* ProcessStream waiting, before it sets the status, until the workers have
\* consumed what it published
ProcFinish_WaitDrained(id) ==
    /\ id \in DOMAIN proc
    /\ proc[id].pc = "loop"
    /\ proc[id].pos = Len(proc[id].input)
    /\ \A t \in DOMAIN channels : channels[t] = <<>>
    /\ \A w \in DOMAIN workers : workers[w].pc = "select"
    /\ SetStore(UpdateUploadStatus(Store, proc[id].uploadID,
                   FinalStatus(proc[id].errorCount, proc[id].successCount)).store)
    /\ proc' = [proc EXCEPT ![id].pc = "done"]
    /\ UNCHANGED <<channels, accepted, pubRet>>
    /\ ProcFrameVars

\* Read returns io.EOF: leave the loop, set the upload's status (an error of
\* UpdateUploadStatus is logged only) and return nil
ProcFinish(id) ==
    /\ id \in DOMAIN proc
    /\ proc[id].pc = "loop"
    /\ proc[id].pos = Len(proc[id].input)
    /\ SetStore(UpdateUploadStatus(Store, proc[id].uploadID,
                   FinalStatus(proc[id].errorCount, proc[id].successCount)).store)
    /\ proc' = [proc EXCEPT ![id].pc = "done"]
    /\ UNCHANGED <<channels, accepted, pubRet>>
    /\ ProcFrameVars

(***************************************************************************)
(* SpecStream: ProcessStream on upload u1 with every stream of up to       *)
(* MaxRecords records, a ctx that is cancelled or not, and a bus without a *)
(* queue for the type, with an empty queue or with a full one.             *)
(***************************************************************************)
LineJohn == <<"1674507883", "JOHN DOE", "DEBIT", "250000", "SUCCESS", "restaurant">>
LineJane == <<"1674507884", "JANE DOE", "credit", " 250000", "success", "salary">>
LineShort == <<"1674507885", "BOB SMITH", "DEBIT", "100000", "FAILED">>
LineBadAmount ==
    <<"1674507886", "ALICE WONDER", "CREDIT", "3e5", "PENDING", "pending payment">>

CsvLines == {LineJohn, LineJane, LineShort, LineBadAmount}

RECURSIVE StreamsOf(_, _)
StreamsOf(lines, n) ==
    IF n = 0 THEN {<<>>}
    ELSE LET shorter == StreamsOf(lines, n - 1)
         IN shorter \cup {Append(st, l) : st \in shorter, l \in lines}

Streams == StreamsOf(CsvLines, MaxRecords)

\* a queue filled by earlier publishers
FullQueue == [i \in 1 .. ChannelBuffer |-> EvC]

StreamInit ==
    /\ StoreWithUpload
    /\ ret = NoRet
    /\ \/ channels = EmptyMap /\ consumers = EmptyMap
       \/ /\ channels \in {MapPut(EmptyMap, EventTypeReconciliation, q) :
                              q \in {<<>>, FullQueue}}
          /\ consumers = MapPut(EmptyMap, EventTypeReconciliation,
                                <<[workerCount |-> 1]>>)
    /\ started = FALSE
    /\ busCtx = Nil
    /\ wg = 0
    /\ workers = <<>>
    /\ shutdown = "idle"
    /\ pubRet = NoPub
    /\ accepted = <<>>
    /\ NoCallers
    /\ NoDo
    /\ NoSvc
    /\ AtQuit
    /\ \E input \in Streams, ctxDone \in BOOLEAN :
          proc = MapPut(EmptyMap, "u1", ProcFrame("u1", input, ctxDone))

StreamNext ==
    \/ \E id \in DOMAIN proc : ProcIteration(id)
    \/ \E id \in DOMAIN proc : ProcFinish(id)

SpecStream == StreamInit /\ [][StreamNext]_vars

(***************************************************************************)
(* internal/service/statement_service.go: UploadStatement.  The repository *)
(* is the interface domain.Repository: its CreateUpload answers createErr, *)
(* and changes the store as MemoryStore does when that is nil.             *)
(***************************************************************************)
CreateErrs == {NoErr, "database error"}

SvcRet(uploadID, err) == [uploadID |-> uploadID, err |-> err]

\* UploadStatement starting the goroutine whatever CreateUpload returned
UploadStatement_SpawnAnyway(uploadID, createErr, reader) ==
    /\ IF createErr # NoErr
       THEN /\ svc' = SvcRet("", createErr)
            /\ UNCHANGED storeVars
       ELSE /\ SetStore(CreateUpload(Store, uploadID).store)
            /\ svc' = SvcRet(uploadID, NoErr)
    /\ proc' = MapPut(proc, uploadID, ProcFrame(uploadID, reader, FALSE))
    /\ UNCHANGED <<ret, busVars, callers, do, main>>

\* UploadStatement handing the request's ctx, done once the handler has
\* returned, to ProcessStream
UploadStatement_RequestCtx(uploadID, createErr, reader) ==
    /\ IF createErr # NoErr
       THEN /\ svc' = SvcRet("", createErr)
            /\ UNCHANGED <<storeVars, proc>>
       ELSE /\ SetStore(CreateUpload(Store, uploadID).store)
            /\ proc' = MapPut(proc, uploadID, ProcFrame(uploadID, reader, TRUE))
            /\ svc' = SvcRet(uploadID, NoErr)
    /\ UNCHANGED <<ret, busVars, callers, do, main>>

\* uploadID stands for uuid.New().String(); the goroutine runs ProcessStream
\* with context.Background()
UploadStatement(uploadID, createErr, reader) ==
    /\ IF createErr # NoErr
       THEN /\ svc' = SvcRet("", createErr)
            /\ UNCHANGED <<storeVars, proc>>
       ELSE /\ SetStore(CreateUpload(Store, uploadID).store)
            /\ proc' = MapPut(proc, uploadID, ProcFrame(uploadID, reader, FALSE))
            /\ svc' = SvcRet(uploadID, NoErr)
    /\ UNCHANGED <<ret, busVars, callers, do, main>>

(***************************************************************************)
(* SpecService: requests to UploadStatement, each with a new id, against a *)
(* repository that may refuse CreateUpload; the bus has one consumer with  *)
(* one worker and is started, as main leaves it.                           *)
(***************************************************************************)
ServiceStreams == {<<LineJohn, LineShort, LineJane>>, <<LineBadAmount>>}

\* an id uuid.New() has not returned before
Fresh(id) == id \notin DOMAIN uploads /\ id \notin DOMAIN proc

ServiceInit ==
    /\ uploads = NewMemoryStore.uploads
    /\ transactions = NewMemoryStore.transactions
    /\ processedEvents = NewMemoryStore.processedEvents
    /\ ret = NoRet
    /\ channels = MapPut(EmptyMap, EventTypeReconciliation, <<>>)
    /\ consumers = MapPut(EmptyMap, EventTypeReconciliation, <<[workerCount |-> 1]>>)
    /\ started = TRUE
    /\ busCtx = CtxActive
    /\ wg = 1
    /\ workers = <<Worker(EventTypeReconciliation, 1, 0)>>
    /\ shutdown = "idle"
    /\ pubRet = NoPub
    /\ accepted = <<>>
    /\ NoCallers
    /\ Idle

ServiceNext ==
    \/ \E id \in UploadIds, createErr \in CreateErrs, reader \in ServiceStreams :
          Fresh(id) /\ UploadStatement(id, createErr, reader)
    \/ \E id \in DOMAIN proc : ProcIteration(id)
    \/ \E id \in DOMAIN proc : ProcFinish(id)
    \/ \E w \in DOMAIN workers : WorkerReceive(w)
    \/ \E w \in DOMAIN workers : ConsumeCheck(w)
    \/ \E w \in DOMAIN workers : ConsumeAdd(w)
    \/ \E w \in DOMAIN workers : ConsumeMark(w)
    \/ \E w \in DOMAIN workers : ConsumeInc(w)

SpecService == ServiceInit /\ [][ServiceNext]_vars

(***************************************************************************)
(* cmd/server/main.go after the wiring: main waits for a signal, shuts the *)
(* HTTP server down and then the bus.  A request to POST /statements is    *)
(* one step: StatementHandler.Upload calls UploadStatement and returns.    *)
(* The request's context is done when the client goes away or once the     *)
(* handler has returned.                                                   *)
(***************************************************************************)
MainFrameVars == UNCHANGED <<storeVars, ret, busVars, callers, do, proc, svc>>

\* <-quit returns; main calls srv.Shutdown and the server accepts no request
Signal ==
    /\ main.pc = "quit"
    /\ main' = [main EXCEPT !.pc = "shutdownHTTP"]
    /\ MainFrameVars

\* srv.Shutdown returns: no handler is running, or shutdownCtx is done
ServerShutdownDone ==
    /\ main.pc = "shutdownHTTP"
    /\ main' = [main EXCEPT !.pc = "shutdownBus"]
    /\ MainFrameVars

\* main calls bus.Shutdown
MainBusShutdown == main.pc = "shutdownBus" /\ ShutdownCall

\* the context of the request that created upload id is done
RequestCancel(id) ==
    /\ id \in DOMAIN uploads
    /\ id \notin main.cancelled
    /\ main' = [main EXCEPT !.cancelled = @ \cup {id}]
    /\ MainFrameVars

\* POST /statements, served while main waits for the signal
HandleUpload(id, createErr, reader) ==
    main.pc = "quit" /\ Fresh(id) /\ UploadStatement(id, createErr, reader)

(***************************************************************************)
(* SpecMain: the process from the end of main's wiring to its exit:        *)
(* uploads are accepted until the signal, the processors and the worker    *)
(* run on, the bus is shut down after the HTTP server.                     *)
(***************************************************************************)
MainNext ==
    \/ \E id \in UploadIds, createErr \in CreateErrs, reader \in ServiceStreams :
          HandleUpload(id, createErr, reader)
    \/ \E id \in UploadIds : RequestCancel(id)
    \/ Signal
    \/ ServerShutdownDone
    \/ MainBusShutdown
    \/ ShutdownDone
    \/ ShutdownTimeout
    \/ \E id \in DOMAIN proc : ProcIteration(id)
    \/ \E id \in DOMAIN proc : ProcFinish(id)
    \/ \E w \in DOMAIN workers : WorkerReceive(w)
    \/ \E w \in DOMAIN workers : WorkerStop(w)
    \/ \E w \in DOMAIN workers : ConsumeCheck(w)
    \/ \E w \in DOMAIN workers : ConsumeAdd(w)
    \/ \E w \in DOMAIN workers : ConsumeMark(w)
    \/ \E w \in DOMAIN workers : ConsumeInc(w)

SpecMain == ServiceInit /\ [][MainNext]_vars

(***************************************************************************)
(* SpecStatus: SpecService with a client that asks for an upload's status  *)
(* (statementService.GetUploadStatus hands on what GetUpload returns) and  *)
(* keeps the *Upload it got while the processors and the worker run.       *)
(***************************************************************************)
StatusNext ==
    \/ ServiceNext
    \/ \E id \in UploadIds : CallGetUpload(id)

SpecStatus == ServiceInit /\ [][StatusNext]_vars

(***************************************************************************)
(* SpecFlow: the upload of the integration test (TestStatementUploadFlow), *)
(* and two files with records that are refused: upload u1 is created, its  *)
(* processor runs, and the bus is started with one consumer of one or more *)
(* workers and never shut down.  SpecFlowFair adds what Go's scheduler     *)
(* gives: a goroutine that can run does run.                               *)
(***************************************************************************)
S1Jane == <<"1674507884", "JANE DOE", "CREDIT", "500000", "SUCCESS", "salary">>
S1Bob ==
    <<"1674507885", "BOB SMITH", "DEBIT", "100000", "FAILED", "invalid transaction">>
S1Alice ==
    <<"1674507886", "ALICE WONDER", "CREDIT", "300000", "PENDING", "pending payment">>

S1File == <<LineJohn, S1Jane, S1Bob, S1Alice>>

FlowStreams == {S1File, <<LineJohn, LineShort, S1Bob>>, <<LineBadAmount, S1Alice>>}

FlowInit ==
    /\ StoreWithUpload
    /\ ret = NoRet
    /\ channels = MapPut(EmptyMap, EventTypeReconciliation, <<>>)
    /\ \E n \in 1 .. MaxWorkers :
          /\ consumers = MapPut(EmptyMap, EventTypeReconciliation,
                                <<[workerCount |-> n]>>)
          /\ wg = n
          /\ workers = [i \in 1 .. n |-> Worker(EventTypeReconciliation, 1, i - 1)]
    /\ started = TRUE
    /\ busCtx = CtxActive
    /\ shutdown = "idle"
    /\ pubRet = NoPub
    /\ accepted = <<>>
    /\ NoCallers
    /\ NoDo
    /\ NoSvc
    /\ AtQuit
    /\ \E input \in FlowStreams :
          proc = MapPut(EmptyMap, "u1", ProcFrame("u1", input, FALSE))

\* the steps of the goroutine UploadStatement started
ProcessorStep == \E id \in DOMAIN proc : ProcIteration(id) \/ ProcFinish(id)

\* the steps of worker goroutine w
WorkerStep(w) ==
    /\ w \in DOMAIN workers
    /\ \/ WorkerReceive(w)
       \/ ConsumeCheck(w)
       \/ ConsumeAdd(w)
       \/ ConsumeMark(w)
       \/ ConsumeInc(w)

FlowNext ==
    \/ \E id \in DOMAIN proc : ProcIteration(id)
    \/ \E id \in DOMAIN proc : ProcFinish(id)
    \/ \E w \in DOMAIN workers : WorkerReceive(w)
    \/ \E w \in DOMAIN workers : ConsumeCheck(w)
    \/ \E w \in DOMAIN workers : ConsumeAdd(w)
    \/ \E w \in DOMAIN workers : ConsumeMark(w)
    \/ \E w \in DOMAIN workers : ConsumeInc(w)

SpecFlow == FlowInit /\ [][FlowNext]_vars

SpecFlowFair ==
    /\ SpecFlow
    /\ WF_vars(ProcessorStep)
    /\ \A w \in 1 .. MaxWorkers : WF_vars(WorkerStep(w))

(***************************************************************************)
(* SpecUpload: SpecService with the handler in two steps, the call of      *)
(* UploadStatement and the handler's return, which runs the deferred       *)
(* src.Close() while the goroutine may still read src.  A multipart file   *)
(* kept in memory is read on as before; one kept on disk is an *os.File,   *)
(* and every Read after Close returns an error that is not io.EOF (what    *)
(* csv.Reader had buffered is still parsed).  main.closed holds the        *)
(* uploads whose src answers so.                                           *)
(***************************************************************************)
\* the read errors logged for one upload: the loop itself has no end
MaxReadErrors == 3

UploadInit ==
    /\ uploads = NewMemoryStore.uploads
    /\ transactions = NewMemoryStore.transactions
    /\ processedEvents = NewMemoryStore.processedEvents
    /\ ret = NoRet
    /\ channels = MapPut(EmptyMap, EventTypeReconciliation, <<>>)
    /\ consumers = MapPut(EmptyMap, EventTypeReconciliation, <<[workerCount |-> 1]>>)
    /\ started = TRUE
    /\ busCtx = CtxActive
    /\ wg = 1
    /\ workers = <<Worker(EventTypeReconciliation, 1, 0)>>
    /\ shutdown = "idle"
    /\ pubRet = NoPub
    /\ accepted = <<>>
    /\ NoCallers
    /\ NoDo
    /\ NoProc
    /\ NoSvc
    /\ main = [pc |-> "quit", cancelled |-> {}, closed |-> {}]

\* Upload returns: the request's context is done and src is closed; of a file
\* on disk the goroutine still gets the records csv.Reader has buffered
HandlerReturn(id, onDisk, buffered) ==
    /\ id \in DOMAIN uploads
    /\ id \notin main.cancelled
    /\ main' = [main EXCEPT !.cancelled = @ \cup {id},
                            !.closed = IF onDisk THEN @ \cup {id} ELSE @]
    /\ IF onDisk /\ proc[id].pc = "loop"
       THEN /\ buffered \in proc[id].pos .. Len(proc[id].input)
            /\ proc' = [proc EXCEPT ![id].input = SubSeq(@, 1, buffered)]
       ELSE /\ buffered = 0
            /\ UNCHANGED proc
    /\ UNCHANGED <<storeVars, ret, busVars, callers, do, svc>>

\* csvReader.Read returns the error of the closed file: log, errorCount++,
\* continue
ProcReadError(id) ==
    /\ id \in DOMAIN proc
    /\ proc[id].pc = "loop"
    /\ id \in main.closed
    /\ proc[id].pos = Len(proc[id].input)
    /\ proc[id].errorCount < MaxReadErrors
    /\ proc' = [proc EXCEPT ![id].errorCount = @ + 1]
    /\ UNCHANGED <<channels, accepted, pubRet>>
    /\ UNCHANGED storeVars
    /\ ProcFrameVars

\* csvReader.Read returns io.EOF, which a closed file never does
ProcFinishAtEOF(id) == id \notin main.closed /\ ProcFinish(id)

\* the steps of the goroutine that processes upload id
ProcessStreamStep(id) ==
    /\ id \in DOMAIN proc
    /\ \/ ProcIteration(id)
       \/ ProcFinishAtEOF(id)
       \/ ProcReadError(id)

UploadNext ==
    \/ \E id \in UploadIds, createErr \in CreateErrs, reader \in ServiceStreams :
          HandleUpload(id, createErr, reader)
    \/ \E id \in UploadIds, onDisk \in BOOLEAN, buffered \in 0 .. MaxRecords :
          HandlerReturn(id, onDisk, buffered)
    \/ \E id \in DOMAIN proc : ProcIteration(id)
    \/ \E id \in DOMAIN proc : ProcFinishAtEOF(id)
    \/ \E id \in DOMAIN proc : ProcReadError(id)
    \/ \E w \in DOMAIN workers : WorkerReceive(w)
    \/ \E w \in DOMAIN workers : ConsumeCheck(w)
    \/ \E w \in DOMAIN workers : ConsumeAdd(w)
    \/ \E w \in DOMAIN workers : ConsumeMark(w)
    \/ \E w \in DOMAIN workers : ConsumeInc(w)

SpecUpload == UploadInit /\ [][UploadNext]_vars

SpecUploadFair ==
    /\ SpecUpload
    /\ \A id \in UploadIds : WF_vars(ProcessStreamStep(id))
    /\ \A id \in UploadIds :
          WF_vars(\E onDisk \in BOOLEAN, buffered \in 0 .. MaxRecords :
                     HandlerReturn(id, onDisk, buffered))
    /\ \A w \in 1 .. MaxWorkers : WF_vars(WorkerStep(w))

(***************************************************************************)
(* SpecStart: consumers with any worker count subscribe to two event       *)
(* types, before and after Start; Start and Shutdown are called in any     *)
(* order and the workers stop when the bus's context is cancelled.         *)
(***************************************************************************)
StartTypes == {EventTypeReconciliation, "other"}

\* the consumers subscribed to all types
RECURSIVE Subscriptions(_)
Subscriptions(types) ==
    IF types = {} THEN 0
    ELSE LET t == CHOOSE x \in types : TRUE
         IN Len(consumers[t]) + Subscriptions(types \ {t})

StartNext ==
    \/ \E t \in StartTypes, n \in 0 .. MaxWorkers :
          Subscriptions(DOMAIN consumers) < MaxSubscriptions /\ Subscribe(t, n)
    \/ Start
    \/ ShutdownCall
    \/ ShutdownDone
    \/ ShutdownTimeout
    \/ \E w \in DOMAIN workers : WorkerStop(w)

SpecStart == BusInit /\ [][StartNext]_vars

(***************************************************************************)
(* SpecConc: the goroutines of TestMemoryStore_Concurrency, each issuing   *)
(* AddTransaction, IncrementProcessedRows and GetBalance on upload u1,     *)
(* MAdds times.  Every call is one step: the store's mutex makes it so.    *)
(***************************************************************************)
ConcTxs == <<JaneDoe, JohnDoe, BobSmith, AliceWonder>>

\* the transaction goroutine c adds; its line number is c
ConcTx(c) == ConcTxs[((c - 1) % Len(ConcTxs)) + 1]

Caller == [pc |-> "add", n |-> 0, bal |-> 0]

CallerAdd(c) ==
    /\ callers[c].pc = "add"
    /\ LET r == AddTransaction(Store, "u1", ConcTx(c), c) IN
          /\ SetStore(r.store)
          /\ callers' = [callers EXCEPT ![c].pc = "inc"]
    /\ UNCHANGED exceptCallers

CallerInc(c) ==
    /\ callers[c].pc = "inc"
    /\ LET r == IncrementProcessedRows(Store, "u1") IN
          /\ SetStore(r.store)
          /\ callers' = [callers EXCEPT ![c].pc = "bal", ![c].n = @ + 1]
    /\ UNCHANGED exceptCallers

CallerBalance(c) ==
    /\ callers[c].pc = "bal"
    /\ LET r == GetBalance(Store, "u1") IN
          /\ SetStore(r.store)
          /\ callers' = [callers EXCEPT
                ![c].pc = IF callers[c].n < MAdds THEN "add" ELSE "done",
                ![c].bal = r.balance]
    /\ UNCHANGED exceptCallers

ConcInit ==
    /\ StoreWithUpload
    /\ ret = NoRet
    /\ BusNew
    /\ callers = [c \in 1 .. NCallers |-> Caller]
    /\ Idle

ConcNext ==
    \/ \E c \in DOMAIN callers : CallerAdd(c)
    \/ \E c \in DOMAIN callers : CallerInc(c)
    \/ \E c \in DOMAIN callers : CallerBalance(c)

SpecConc == ConcInit /\ [][ConcNext]_vars

(***************************************************************************)
(* SpecRead: NCallers + 1 goroutines calling AddTransaction (the odd ones) *)
(* and GetBalance (the even ones) on upload u1, MCalls calls each, with    *)
(* the store's sync.RWMutex explicit: a call begins, takes the lock, runs  *)
(* its body (GetBalance row by row), and releases the lock as it returns.  *)
(***************************************************************************)
\* calls each goroutine makes
MCalls == 1

IsWriter(c) == c % 2 = 1

\* s.mu is held for writing, or for reading, by some goroutine
WriteLocked == \E c \in DOMAIN callers : callers[c].pc = "addLocked"
ReadLocked == \E c \in DOMAIN callers : callers[c].pc = "balLoop"

\* a goroutine about to make its first call; began and len are the lengths of
\* the ledger when GetBalance was called and when it read s.transactions
RWCaller(c) ==
    [pc |-> IF IsWriter(c) THEN "add" ELSE "bal", n |-> 0, bal |-> 0, i |-> 0,
     len |-> 0, began |-> 0]

\* AddTransaction: s.mu.Lock() and the body up to the append
AddLocked(c) ==
    /\ callers[c].pc = "add"
    /\ ~WriteLocked /\ ~ReadLocked
    /\ SetStore(AddTransaction(Store, "u1", ConcTx(c), c).store)
    /\ callers' = [callers EXCEPT ![c].pc = "addLocked"]
    /\ UNCHANGED exceptCallers

\* AddTransaction: return nil and the deferred s.mu.Unlock()
AddReturn(c) ==
    /\ callers[c].pc = "addLocked"
    /\ callers' = [callers EXCEPT
          ![c].pc = IF callers[c].n + 1 < MCalls THEN "add" ELSE "done",
          ![c].n = @ + 1]
    /\ UNCHANGED <<storeVars, exceptCallers>>

\* GetBalance is called
BalanceBegin(c) ==
    /\ callers[c].pc = "bal"
    /\ callers' = [callers EXCEPT ![c].pc = "balWait",
                                  ![c].began = Len(transactions["u1"])]
    /\ UNCHANGED <<storeVars, exceptCallers>>

\* GetBalance with the loop starting at the second row
BalanceLocked_FromSecond(c) ==
    /\ callers[c].pc = "balWait"
    /\ ~WriteLocked
    /\ callers' = [callers EXCEPT ![c].pc = "balLoop", ![c].i = 2, ![c].bal = 0,
                                  ![c].len = Len(transactions["u1"])]
    /\ UNCHANGED <<storeVars, exceptCallers>>

\* GetBalance: s.mu.RLock(), the lookups, and the range over the rows begun
BalanceLocked(c) ==
    /\ callers[c].pc = "balWait"
    /\ ~WriteLocked
    /\ callers' = [callers EXCEPT ![c].pc = "balLoop", ![c].i = 1, ![c].bal = 0,
                                  ![c].len = Len(transactions["u1"])]
    /\ UNCHANGED <<storeVars, exceptCallers>>

\* GetBalance: one pass of the loop over the rows
BalanceRow(c) ==
    /\ callers[c].pc = "balLoop"
    /\ callers[c].i <= callers[c].len
    /\ callers' = [callers EXCEPT
          ![c].bal = BalanceLoop(SubSeq(transactions["u1"], callers[c].i,
                                        callers[c].i), 1, @),
          ![c].i = @ + 1]
    /\ UNCHANGED <<storeVars, exceptCallers>>

\* GetBalance: return balance, nil and the deferred s.mu.RUnlock()
BalanceReturn(c) ==
    /\ callers[c].pc = "balLoop"
    /\ callers[c].i > callers[c].len
    /\ callers' = [callers EXCEPT
          ![c].pc = "balDone", ![c].n = @ + 1]
    /\ UNCHANGED <<storeVars, exceptCallers>>

\* the goroutine uses the balance and calls GetBalance again, or ends
BalanceAgain(c) ==
    /\ callers[c].pc = "balDone"
    /\ callers' = [callers EXCEPT
          ![c].pc = IF callers[c].n < MCalls THEN "bal" ELSE "done"]
    /\ UNCHANGED <<storeVars, exceptCallers>>

ReadInit ==
    /\ StoreWithUpload
    /\ ret = NoRet
    /\ BusNew
    /\ callers = [c \in 1 .. NCallers + 1 |-> RWCaller(c)]
    /\ Idle

ReadNext ==
    \/ \E c \in DOMAIN callers : AddLocked(c)
    \/ \E c \in DOMAIN callers : AddReturn(c)
    \/ \E c \in DOMAIN callers : BalanceBegin(c)
    \/ \E c \in DOMAIN callers : BalanceLocked(c)
    \/ \E c \in DOMAIN callers : BalanceRow(c)
    \/ \E c \in DOMAIN callers : BalanceReturn(c)
    \/ \E c \in DOMAIN callers : BalanceAgain(c)

SpecRead == ReadInit /\ [][ReadNext]_vars

(***************************************************************************)
(* GetIssues with page and perPage as Go ints of 64 bits (the handler      *)
(* passes on whatever strconv.Atoi accepts), held as sets of bit positions *)
(* like the durations above.                                               *)
(***************************************************************************)
\* the natural a set of bit positions below 31 stands for
RECURSIVE ValueOf(_)
ValueOf(x) ==
    IF x = {} THEN 0
    ELSE LET b == CHOOSE i \in x : TRUE IN Pow2(b) + ValueOf(x \ {b})

\* Go's + on int, and x - 1: the lowest 1 bit is cleared and the bits below
\* it are set (0 - 1 is the word of 64 ones)
Plus64(x, y) == Wrap(Plus(x, y))
MinusOne64(x) ==
    IF x = {} THEN Word
    ELSE LET low == CHOOSE b \in x : \A c \in x : b <= c
         IN (x \ {low}) \cup (0 .. (low - 1))
Lt64(x, y) == Gt64(y, x)

ErrSliceBounds == "panic: slice bounds out of range"

\* the ints 1 and 10 (perPage when the caller passes none)
One64 == BitsOf(1)
DefaultPerPage64 == BitsOf(DefaultPerPage)

\* the end of GetIssues from `total := len(filtered)`: items is the page
\* returned, err the panic of filtered[start:end] when 0 <= start <= end fails
PageOf64(filtered, page, perPage) ==
    LET total == BitsOf(Len(filtered))
        pg == IF Lt64(page, One64) THEN One64 ELSE page
        pp == IF Lt64(perPage, One64) THEN DefaultPerPage64 ELSE perPage
        start == Mul64(MinusOne64(pg), pp)
        end == Plus64(start, pp)
    IN  IF ~Lt64(start, total) THEN [err |-> NoErr, items |-> <<>>]
        ELSE LET to == IF Gt64(end, total) THEN total ELSE end
             IN IF IsNegative(start) \/ Gt64(start, to)
                THEN [err |-> ErrSliceBounds, items |-> <<>>]
                ELSE [err |-> NoErr,
                      items |-> Slice(filtered, ValueOf(start), ValueOf(to))]

GetIssues64(s, uploadID, page, perPage, status) ==
    IF uploadID \notin DOMAIN s.uploads
    THEN [store |-> s, err |-> ErrUploadNotFound, items |-> <<>>, total |-> 0]
    ELSE IF uploadID \notin DOMAIN s.transactions
    THEN [store |-> s, err |-> NoErr, items |-> <<>>, total |-> 0]
    ELSE LET filtered == IssuesLoop(s.transactions[uploadID], 1, status, <<>>)
             pageOf == PageOf64(filtered, page, perPage)
         IN [store |-> s, err |-> pageOf.err, items |-> pageOf.items,
             total |-> Len(filtered)]

CallGetIssues64(id, page, perPage, status) ==
    LET r == GetIssues64(Store, id, page, perPage, status) IN
    SetStore(r.store) /\ ret' = Ret("GetIssues", id, r) /\ UNCHANGED exceptClient

\* 2^32, 2^32 + 1, 2^62 and 2^62 + 1
BigInts == {{32}, {0, 32}, {62}, {0, 62}}
PageArgs == {BitsOf(n) : n \in Pages} \cup BigInts
PerPageArgs == {BitsOf(n) : n \in PerPages} \cup BigInts

(***************************************************************************)
(* SpecPage: GetIssues called with small and with very large page and      *)
(* perPage on an upload that holds up to MaxPerPage rows.                  *)
(***************************************************************************)
PageInit ==
    /\ \E rows \in StreamsOf(LedgerRows, MaxPerPage) :
          /\ uploads = CreateUpload(NewMemoryStore, "u1").store.uploads
          /\ transactions = MapPut(EmptyMap, "u1",
                [i \in DOMAIN rows |->
                    [Transaction |-> rows[i].tx, LineNumber |-> rows[i].line]])
    /\ processedEvents = {}
    /\ ret = NoRet
    /\ BusNew
    /\ NoCallers
    /\ Idle

PageNext ==
    \E pg \in PageArgs, pp \in PerPageArgs, f \in StatusFilters :
       CallGetIssues64("u1", pg, pp, f)

SpecPage == PageInit /\ [][PageNext]_vars

(***************************************************************************)
(* What the claims about the ledger compare the code's results with.       *)
(***************************************************************************)
\* the amount a row stands for in the balance
Signed(row) ==
    IF row.Transaction.Status # TransactionStatusSuccess THEN 0
    ELSE IF row.Transaction.Type = TransactionTypeCredit THEN row.Transaction.Amount
    ELSE IF row.Transaction.Type = TransactionTypeDebit THEN 0 - row.Transaction.Amount
    ELSE 0

\* the sum of Signed over the rows at the positions in idx
RECURSIVE SumAt(_, _)
SumAt(rows, idx) ==
    IF idx = {} THEN 0
    ELSE LET i == CHOOSE x \in idx : TRUE IN Signed(rows[i]) + SumAt(rows, idx \ {i})

LedgerSum(rows) == SumAt(rows, DOMAIN rows)

IssueStatuses == {TransactionStatusFailed, TransactionStatusPending}

\* the statuses a filter asks for
Wanted(f) == IF f = Nil THEN IssueStatuses ELSE IssueStatuses \cap {f}

HasStatusIn(S, row) == row.Transaction.Status \in S

\* the rows with a status in S, in insertion order
RowsWithStatus(rows, S) == SelectSeq(rows, LAMBDA r : HasStatusIn(S, r))

CeilDiv(n, k) == (n + k - 1) \div k

\* the items of pages from..to of size k, one after the other
RECURSIVE PagesConcat(_, _, _, _, _, _)
PagesConcat(s, id, k, f, from, to) ==
    IF from > to THEN <<>>
    ELSE GetIssues(s, id, from, k, f).items \o PagesConcat(s, id, k, f, from + 1, to)

\* C1: for every upload that exists, GetBalance succeeds and returns the sum over
\* its rows of +amount for a SUCCESS CREDIT and -amount for a SUCCESS DEBIT (0 for
\* every other row, 0 for no rows), and so does every GetBalance call a client made.
C1_BalanceLaw ==
    /\ \A id \in DOMAIN uploads :
         /\ GetBalance(Store, id).err = NoErr
         /\ GetBalance(Store, id).balance = LedgerSum(transactions[id])
    /\ (ret.op = "GetBalance" /\ ret.err = NoErr) =>
         ret.balance = LedgerSum(transactions[ret.id])

\* C1 witness: a balance of 250000 read from three rows, one of them FAILED
C1_Witness ==
    /\ ret.op = "GetBalance" /\ ret.err = NoErr /\ ret.balance = 250000
    /\ Len(transactions[ret.id]) = 3
    /\ \E i \in 1 .. 3 :
         transactions[ret.id][i].Transaction.Status = TransactionStatusFailed

\* C2: for every upload that exists, GetIssues without a filter reports as total
\* and returns over its pages exactly the FAILED and PENDING rows, with filter
\* FAILED or PENDING exactly the rows of that status, and under no arguments a
\* SUCCESS row.
C2_IssueSet ==
    /\ \A id \in DOMAIN uploads :
         /\ \A f \in {Nil} \cup IssueStatuses, k \in 1 .. MaxPerPage :
              LET want == RowsWithStatus(transactions[id], Wanted(f))
                  total == GetIssues(Store, id, 1, k, f).total
              IN  /\ total = Len(want)
                  /\ PagesConcat(Store, id, k, f, 1, CeilDiv(total, k)) = want
         /\ \A f \in StatusFilters, pg \in Pages, pp \in PerPages :
              LET r == GetIssues(Store, id, pg, pp, f) IN
              \A i \in DOMAIN r.items :
                 r.items[i].Transaction.Status # TransactionStatusSuccess
    /\ ret.op = "GetIssues" =>
         \A i \in DOMAIN ret.items :
            ret.items[i].Transaction.Status \in IssueStatuses

\* C2 witness: a call that returned two issues of an upload that also holds a
\* SUCCESS row
C2_Witness ==
    /\ ret.op = "GetIssues" /\ ret.err = NoErr
    /\ ret.total = 2 /\ Len(ret.items) = 2
    /\ Len(transactions[ret.id]) = 3
    /\ \E i \in 1 .. 3 :
         transactions[ret.id][i].Transaction.Status = TransactionStatusSuccess

\* C3: for a fixed store, filter and page size k >= 1, the pages 1..ceil(total/k)
\* one after the other are the filtered issue list in insertion order, every page
\* reports the same total, and every page but the last holds exactly k items.
C3_PaginationLaw ==
    \A id \in DOMAIN uploads, f \in StatusFilters, k \in 1 .. MaxPerPage :
       LET want == RowsWithStatus(transactions[id], Wanted(f))
           total == Len(want)
           last == CeilDiv(total, k)
       IN  /\ PagesConcat(Store, id, k, f, 1, last) = want
           /\ \A p \in 1 .. last :
                /\ GetIssues(Store, id, p, k, f).total = total
                /\ p < last => Len(GetIssues(Store, id, p, k, f).items) = k
                /\ Len(GetIssues(Store, id, p, k, f).items) >= 1

\* C3 witness: the second page, of one item, of three issues read two at a time
C3_Witness ==
    /\ ret.op = "GetIssues" /\ ret.err = NoErr /\ ret.total = 3
    /\ Len(ret.items) = 1
    /\ ret.items[1] = transactions[ret.id][3]

(***************************************************************************)
(* Claims about the upload's life, under SpecStore.                        *)
(***************************************************************************)
\* a call on upload id of one of the six methods that look the upload up
CallOnUpload(id) ==
    \/ CallGetUpload(id)
    \/ \E st \in UploadStatuses : CallUpdateUploadStatus(id, st)
    \/ CallIncrementProcessedRows(id)
    \/ \E r \in StoreRows : CallAddTransaction(id, r.tx, r.line)
    \/ CallGetBalance(id)
    \/ \E f \in StatusFilters : CallGetIssues(id, 1, 1, f)

\* C6: the status of an upload changes only from processing to completed or to
\* failed; once completed or failed no repository operation changes it.
C6_StatusMonotone ==
    [][\A id \in DOMAIN uploads :
          /\ id \in DOMAIN uploads'
          /\ uploads'[id].Status # uploads[id].Status =>
                /\ uploads[id].Status = UploadStatusProcessing
                /\ uploads'[id].Status \in {UploadStatusCompleted, UploadStatusFailed}
      ]_vars

\* C9: CreateUpload(id) succeeds on an id that does not exist, leaving the upload
\* in processing with processed_rows 0 and no rows; on an id that exists it fails
\* and leaves the store as it was.
C9_CreateUploadContract ==
    [][\A id \in UploadIds :
          CallCreateUpload(id) =>
             IF id \notin DOMAIN uploads
             THEN /\ ret'.err = NoErr
                  /\ uploads'[id].Status = UploadStatusProcessing
                  /\ uploads'[id].ProcessedRows = 0
                  /\ transactions'[id] = <<>>
             ELSE /\ ret'.err # NoErr
                  /\ UNCHANGED storeVars
      ]_vars

\* C10: on an upload id that was never created, GetUpload, UpdateUploadStatus,
\* IncrementProcessedRows, AddTransaction, GetBalance and GetIssues each return
\* ErrUploadNotFound and leave uploads, rows and processed events as they were.
C10_NotFoundLeavesStore ==
    [][\A id \in UploadIds :
          (id \notin DOMAIN uploads /\ CallOnUpload(id)) =>
             /\ ret'.err = ErrUploadNotFound
             /\ UNCHANGED storeVars
      ]_vars

\* C10 witness: AddTransaction on a missing id returned ErrUploadNotFound while
\* the other upload exists, completed and with a counted row, and an event is
\* marked processed
C10_Witness ==
    /\ ret.op = "AddTransaction" /\ ret.err = ErrUploadNotFound
    /\ ret.id \notin DOMAIN uploads
    /\ ret.id \notin DOMAIN transactions
    /\ \E id \in DOMAIN uploads :
          uploads[id].Status = UploadStatusCompleted /\ uploads[id].ProcessedRows = 1
    /\ processedEvents # {}

(***************************************************************************)
(* Claims about Consume and the bus.                                       *)
(***************************************************************************)
\* every queue is empty and every worker is at its select or has returned
Quiescent ==
    /\ \A t \in DOMAIN channels : channels[t] = <<>>
    /\ \A w \in DOMAIN workers : workers[w].pc \in {"select", "exited"}

IdsOf(events) == {events[i].ID : i \in DOMAIN events}

\* the row an event's payload asks for
RowOf(ev) ==
    [Transaction |-> ev.Payload.Transaction, LineNumber |-> ev.Payload.LineNumber]

\* the rows of the first event of each id, in the order the events were queued
RECURSIVE FirstRows(_, _, _)
FirstRows(events, i, seen) ==
    IF i > Len(events) THEN <<>>
    ELSE IF events[i].ID \in seen THEN FirstRows(events, i + 1, seen)
    ELSE <<RowOf(events[i])>> \o FirstRows(events, i + 1, seen \cup {events[i].ID})

IsPrefix(a, b) == Len(a) <= Len(b) /\ a = SubSeq(b, 1, Len(a))

\* C4: events consumed one after another by one worker: an id already processed
\* is never applied again, so the ledger holds one row for each id (the row of
\* the first event with that id) and, once all are consumed, processed_rows and
\* the processed-event set count each id once, however often it was consumed.
C4_IdempotentConsume ==
    LET want == FirstRows(accepted, 1, {}) IN
    /\ \A w \in DOMAIN workers :
          workers[w].pc \in {"add", "mark"} =>
             workers[w].event.ID \notin processedEvents
    /\ IsPrefix(transactions["u1"], want)
    /\ uploads["u1"].ProcessedRows <= Len(transactions["u1"])
    /\ Quiescent =>
          /\ transactions["u1"] = want
          /\ uploads["u1"].ProcessedRows = Cardinality(IdsOf(accepted))
          /\ processedEvents = IdsOf(accepted)

\* C4 witness: the same event consumed three times, one row in the ledger
C4_Witness ==
    /\ Quiescent
    /\ Len(accepted) = 3
    /\ accepted[1] = accepted[2] /\ accepted[2] = accepted[3]
    /\ Len(transactions["u1"]) = 1
    /\ uploads["u1"].ProcessedRows = 1

\* C5: when two events with one id and different rows were published to a
\* started bus with two or more workers and both were consumed, exactly one of
\* them was applied: the ledger holds one row and processed_rows is 1.
C5_ExactlyOneApplied ==
    ( /\ Quiescent
      /\ Len(workers) >= 2
      /\ Len(accepted) = 2
      /\ accepted[1].ID = accepted[2].ID
      /\ accepted[1].Payload # accepted[2].Payload
      /\ accepted[1].Payload.UploadID = "u1" /\ accepted[2].Payload.UploadID = "u1" )
    => /\ Len(transactions["u1"]) = 1
       /\ uploads["u1"].ProcessedRows = 1

\* a step in which a worker calls AddTransaction, MarkEventProcessed or
\* IncrementProcessedRows
WorkerMutation ==
    \E w \in DOMAIN workers : ConsumeAdd(w) \/ ConsumeMark(w) \/ ConsumeInc(w)

\* C7: once Shutdown has returned nil on a bus that was started, no worker
\* calls AddTransaction, MarkEventProcessed or IncrementProcessedRows, whatever
\* the queue holds or is given later.
C7_ShutdownSafety ==
    [][(shutdown = "ok" /\ busCtx = CtxCancelled) =>
          /\ ~WorkerMutation
          /\ UNCHANGED storeVars
      ]_vars

\* C7 witness: Shutdown returned nil after a worker applied an event, and an
\* event is still queued
C7_Witness ==
    /\ shutdown = "ok" /\ busCtx = CtxCancelled
    /\ Len(workers) >= 1
    /\ Len(transactions["u1"]) >= 1
    /\ channels[EventTypeReconciliation] # <<>>

(***************************************************************************)
(* Claims about concurrent callers of the store.                           *)
(***************************************************************************)
\* the AddTransaction calls goroutine c has completed
AddsOf(c) == callers[c].n + (IF callers[c].pc = "inc" THEN 1 ELSE 0)

RECURSIVE SumOver(_, _)
SumOver(f, idx) ==
    IF idx = {} THEN 0
    ELSE LET i == CHOOSE x \in idx : TRUE IN f[i] + SumOver(f, idx \ {i})

AllReturned == \A c \in DOMAIN callers : callers[c].pc = "done"

\* C8: with NCallers goroutines each issuing MAdds pairs of AddTransaction and
\* IncrementProcessedRows (and a GetBalance after each pair) on one upload, no
\* update is lost: the ledger and processed_rows count every completed call,
\* and once all have returned both are NCallers * MAdds and GetBalance is the
\* sum of the SUCCESS rows added.
C8_NoLostUpdate ==
    /\ callers # <<>> =>
          /\ Len(transactions["u1"]) =
                SumOver([c \in DOMAIN callers |-> AddsOf(c)], DOMAIN callers)
          /\ uploads["u1"].ProcessedRows =
                SumOver([c \in DOMAIN callers |-> callers[c].n], DOMAIN callers)
          /\ \A c \in DOMAIN callers :
                Cardinality({i \in DOMAIN transactions["u1"] :
                    transactions["u1"][i] =
                       [Transaction |-> ConcTx(c), LineNumber |-> c]}) = AddsOf(c)
    /\ (callers # <<>> /\ AllReturned) =>
          /\ uploads["u1"].ProcessedRows = NCallers * MAdds
          /\ Len(transactions["u1"]) = NCallers * MAdds
          /\ GetBalance(Store, "u1").balance =
                SumOver([c \in DOMAIN callers |->
                            MAdds * Signed([Transaction |-> ConcTx(c), LineNumber |-> c])],
                        DOMAIN callers)

\* C8 witness: all goroutines returned, their calls having interleaved (the
\* first two rows of the ledger come from different goroutines)
C8_Witness ==
    /\ callers # <<>>
    /\ AllReturned
    /\ uploads["u1"].ProcessedRows = NCallers * MAdds
    /\ transactions["u1"][1].LineNumber # transactions["u1"][2].LineNumber

(***************************************************************************)
(* Claims about Publish, the queue and Start.                              *)
(***************************************************************************)
\* C11: Publish on a type that has a queue enqueues and returns nil whenever the
\* queue has room, also when the caller's ctx is cancelled; else it returns the
\* cancellation error if ctx is cancelled; else it drops the event and returns nil.
C11_PublishPrecedence ==
    [][\A ev \in BusEvents, ctxDone \in BOOLEAN :
          (ev.Type \in DOMAIN channels /\ Publish(ctxDone, ev)) =>
             IF Len(channels[ev.Type]) < ChannelBuffer
             THEN /\ channels'[ev.Type] = Append(channels[ev.Type], ev)
                  /\ pubRet'.err = NoErr
             ELSE /\ channels' = channels
                  /\ pubRet'.err = IF ctxDone THEN ErrCanceled ELSE NoErr
      ]_vars

\* C12: a queue never holds more than ChannelBuffer events, and in every state
\* (queue full, no worker running, bus shut down) a Publish call can take its
\* step: it needs no step of a worker first.
C12_BoundedNonBlocking ==
    /\ \A t \in DOMAIN channels : Len(channels[t]) <= ChannelBuffer
    /\ \A ev \in BusEvents, ctxDone \in BOOLEAN : ENABLED Publish(ctxDone, ev)

\* C12 witness: the bus is shut down, its queue is full, and a Publish has just
\* dropped its event
C12_Witness ==
    /\ shutdown = "ok"
    /\ EventTypeReconciliation \in DOMAIN channels
    /\ Len(channels[EventTypeReconciliation]) = ChannelBuffer
    /\ pubRet = PubRet("dropped", NoErr)

\* the sum of GetWorkerCount() over the consumers of a list, and over all types
RECURSIVE CountSum(_, _)
CountSum(cs, i) ==
    IF i > Len(cs) THEN 0
    ELSE (IF cs[i].workerCount > 0 THEN cs[i].workerCount ELSE 0) + CountSum(cs, i + 1)

RECURSIVE SubscribedSum(_)
SubscribedSum(types) ==
    IF types = {} THEN 0
    ELSE LET t == CHOOSE x \in types : TRUE
         IN CountSum(consumers[t], 1) + SubscribedSum(types \ {t})

\* the workers spawned for consumer ci of type t
WorkersFor(ws, t, ci) == {w \in DOMAIN ws : ws[w].ch = t /\ ws[w].consumer = ci}

\* C13: the first Start spawns, for every consumer of every type, as many
\* workers as its GetWorkerCount() says; a later Start spawns none and leaves
\* the bus's context as it is.
C13_StartIdempotent ==
    [][Start =>
          IF ~started
          THEN /\ Len(workers') = SubscribedSum(DOMAIN consumers)
               /\ wg' = SubscribedSum(DOMAIN consumers)
               /\ \A t \in DOMAIN consumers : \A ci \in DOMAIN consumers[t] :
                     Cardinality(WorkersFor(workers', t, ci)) =
                        (IF consumers[t][ci].workerCount > 0
                         THEN consumers[t][ci].workerCount ELSE 0)
          ELSE UNCHANGED <<workers, wg, busCtx, started>>
      ]_vars

\* C13 witness: a started bus with the workers of two consumers, shut down, and
\* a consumer subscribed after Start for which no worker exists
C13_Witness ==
    /\ started
    /\ busCtx = CtxCancelled
    /\ Len(workers) >= 2
    /\ \E t \in DOMAIN consumers : \E ci \in DOMAIN consumers[t] :
          consumers[t][ci].workerCount > 0 /\ WorkersFor(workers, t, ci) = {}
    /\ \E t \in DOMAIN consumers : \E ci \in DOMAIN consumers[t] :
          WorkersFor(workers, t, ci) # {}

(***************************************************************************)
(* Claims about retry.Do.                                                  *)
(***************************************************************************)
\* C14: Do invokes the operation at most MaxAttempts times; it never invokes it
\* after an invocation returned nil, and then returns nil; when every one of
\* the MaxAttempts invocations failed and ctx was never cancelled it has made
\* exactly MaxAttempts invocations and returns the "max retries exceeded" error
\* that wraps the last invocation's error.
C14_AttemptsContract ==
    do # <<>> =>
       /\ do.calls <= do.cfg.MaxAttempts
       /\ do.late = 0
       /\ do.succeeded => (do.pc = "done" /\ do.ret = NoErr)
       /\ (do.pc = "done" /\ ~do.succeeded /\ ~do.ctxDone) =>
             /\ do.calls = do.cfg.MaxAttempts
             /\ do.ret = MaxRetriesErr(do.cfg.MaxAttempts, do.lastErr)

\* C15: when ctx is cancelled while Do is in its backoff sleep, or was cancelled
\* before the sleep began, Do's next step is to return the cancellation error:
\* the operation is not invoked again.
C15_CancelDuringSleep ==
    [][(do # <<>> /\ do.pc = "sleep" /\ do.ctxDone) =>
          /\ do'.pc = "done"
          /\ do'.ret = ErrCanceled
          /\ do'.calls = do.calls
      ]_vars

\* min(baseDelay * 2^a, maxDelay) on the naturals
IdealBackoff(a, baseDelay, maxDelay) ==
    LET d == Shl(baseDelay, a) IN IF NatGt(d, maxDelay) THEN maxDelay ELSE d

\* C16: at every attempt index a that Do reaches, the sleep before the next
\* attempt is min(baseDelay * 2^a, maxDelay): at least baseDelay and at most
\* maxDelay.
C16_BackoffFormula ==
    (do # <<>> /\ do.pc = "sleep") =>
       /\ do.delay = IdealBackoff(do.attempt, do.cfg.BaseDelay, do.cfg.MaxDelay)
       /\ ~Gt64(do.cfg.BaseDelay, do.delay)
       /\ ~Gt64(do.delay, do.cfg.MaxDelay)

(***************************************************************************)
(* Claims about ProcessStream.                                             *)
(***************************************************************************)
\* C17: when ProcessStream has left its loop the upload is failed if and only
\* if errorCount > 0 and successCount = 0, and completed otherwise: also for a
\* stream without records and when every event was dropped at a full queue.
\* Until then the upload stays in processing.
C17_FinalStatus ==
    \A id \in DOMAIN proc :
       LET f == proc[id] IN
       IF f.pc # "done"
       THEN uploads[f.uploadID].Status = UploadStatusProcessing
       ELSE /\ uploads[f.uploadID].Status = UploadStatusFailed
                  <=> (f.errorCount > 0 /\ f.successCount = 0)
            /\ uploads[f.uploadID].Status = UploadStatusCompleted
                  <=> ~(f.errorCount > 0 /\ f.successCount = 0)
            /\ f.input = <<>> => uploads[f.uploadID].Status = UploadStatusCompleted

\* C17 witness: two records were published and both dropped at a full queue;
\* the upload is completed
C17_Witness ==
    \E id \in DOMAIN proc :
       /\ proc[id].pc = "done"
       /\ proc[id].successCount = 2
       /\ proc[id].errorCount = 0
       /\ accepted = <<>>
       /\ channels = MapPut(EmptyMap, EventTypeReconciliation, FullQueue)
       /\ uploads[id].Status = UploadStatusCompleted

\* the records among the first pos of a stream that Read returns without an
\* error: the first, and those with as many fields as the first
ReadOk(input, pos) ==
    {i \in 1 .. pos : Len(input[i]) = Len(input[1])}

\* C18: lineNumber is the number of records read without error so far, whether
\* they then parse or not; the events published carry strictly increasing
\* line numbers and the pairwise distinct ids <uploadID>-<lineNumber>.
C18_LineNumbers ==
    \A id \in DOMAIN proc :
       LET f == proc[id] IN
       /\ f.lineNumber = Cardinality(ReadOk(f.input, f.pos))
       /\ \A k \in DOMAIN f.published :
             /\ f.published[k].Payload.LineNumber \in 1 .. f.lineNumber
             /\ f.published[k].ID =
                   f.uploadID \o "-" \o ToString(f.published[k].Payload.LineNumber)
             /\ \A j \in DOMAIN f.published :
                   j < k =>
                      /\ f.published[j].Payload.LineNumber
                            < f.published[k].Payload.LineNumber
                      /\ f.published[j].ID # f.published[k].ID

\* C18 witness: a record that fails validation took line 1, a record that Read
\* rejected took none, and the record after them was published as line 2
C18_Witness ==
    \E id \in DOMAIN proc :
       /\ proc[id].pc = "done"
       /\ proc[id].input = <<LineBadAmount, LineShort, LineJohn>>
       /\ proc[id].errorCount = 2
       /\ Len(proc[id].published) = 1
       /\ proc[id].published[1].ID = "u1-2"

\* the records of a stream that have 6 valid fields
ValidRecords(input) ==
    {i \in DOMAIN input : Len(input[i]) = 6 /\ parseTransaction(input[i]).err = NoErr}

\* C19: with a ctx that is not cancelled, every record that has 6 valid fields
\* is published once and every other record adds one to the error counter,
\* wherever the records with another field count stand in the stream.
C19_BadRecordIsolated ==
    \A id \in DOMAIN proc :
       LET f == proc[id] IN
       (f.pc = "done" /\ ~f.ctxDone) =>
          /\ f.successCount = Cardinality(ValidRecords(f.input))
          /\ Len(f.published) = Cardinality(ValidRecords(f.input))
          /\ f.errorCount = Len(f.input) - Cardinality(ValidRecords(f.input))

(***************************************************************************)
(* Claims about UploadStatement.                                           *)
(***************************************************************************)
\* C20: when CreateUpload fails, UploadStatement returns that error and an empty
\* upload id and starts no ProcessStream: no event is published for the
\* request, and every run of ProcessStream and every event published belongs
\* to an upload that was created.
C20_NoWorkOnCreateError ==
    [][/\ \A id \in UploadIds, reader \in ServiceStreams :
             \A createErr \in CreateErrs \ {NoErr} :
                UploadStatement(id, createErr, reader) =>
                   /\ svc' = SvcRet("", createErr)
                   /\ UNCHANGED <<proc, channels, accepted, storeVars>>
       /\ DOMAIN proc' \subseteq DOMAIN uploads'
       /\ \A k \in DOMAIN accepted' :
             accepted'[k].Payload.UploadID \in DOMAIN uploads'
      ]_vars

\* C20 witness: a request was refused by CreateUpload after another one was
\* accepted and had its events published
C20_Witness ==
    /\ svc = SvcRet("", "database error")
    /\ Cardinality(DOMAIN uploads) = 1
    /\ DOMAIN proc = DOMAIN uploads
    /\ accepted # <<>>
    /\ \A id \in DOMAIN proc : proc[id].pc = "done"

C22_IngressFirst ==
    [][/\ ShutdownCall => main.pc = "shutdownBus"
       /\ busCtx = CtxCancelled => accepted' = accepted
      ]_vars

\* C23: once the bus's context is cancelled no worker takes an event from a
\* queue: a worker at most finishes the event it holds and then exits.
C23_NoDequeueAfterCancel ==
    [][busCtx = CtxCancelled =>
          /\ \A w \in DOMAIN workers : ~WorkerReceive(w)
          /\ \A t \in DOMAIN channels : Len(channels'[t]) >= Len(channels[t])
      ]_vars

(***************************************************************************)
(* Claims about the upload record.                                         *)
(***************************************************************************)
\* C24: in every state an upload's CompletedAt is set if and only if its
\* status is completed or failed.
C24_CompletedAtIffTerminal ==
    \A id \in DOMAIN uploads :
       uploads[id].CompletedAt # Nil
          <=> uploads[id].Status \in {UploadStatusCompleted, UploadStatusFailed}

\* the Upload that a pointer returned by GetUpload points to
Deref(s, upload) == s.uploads[upload]

\* C25: the Upload a caller got from GetUpload stays as it was while the caller
\* holds it, whatever IncrementProcessedRows and UpdateUploadStatus calls are
\* made on the store meanwhile.
C25_CallerOwnsCopy ==
    [][(ret.op = "GetUpload" /\ ret.err = NoErr /\ ret' = ret) =>
          Deref(Store, ret.upload)' = Deref(Store, ret.upload)
      ]_vars

(***************************************************************************)
(* Claims about GetBalance beside concurrent AddTransaction calls.         *)
(***************************************************************************)
\* C26: every GetBalance call returns the balance of a prefix of the rows in
\* the order they were committed, and that prefix holds every row committed
\* (so every row whose AddTransaction had returned) before the call began;
\* while a call reads the rows no AddTransaction changes them.
C26_BalanceOfPrefix ==
    \A c \in DOMAIN callers :
       /\ callers[c].pc = "balDone" =>
             /\ callers[c].began <= callers[c].len
             /\ callers[c].len <= Len(transactions["u1"])
             /\ callers[c].bal =
                   LedgerSum(SubSeq(transactions["u1"], 1, callers[c].len))
       /\ callers[c].pc = "balLoop" =>
             /\ callers[c].len = Len(transactions["u1"])
             /\ ~WriteLocked

\* C26 witness: a GetBalance call that began before any row was committed
\* returned the balance of the first row, a second one being added since
C26_Witness ==
    \E c \in DOMAIN callers :
       /\ callers[c].pc = "balDone"
       /\ callers[c].began = 0
       /\ callers[c].len = 1
       /\ callers[c].bal = 500000
       /\ Len(transactions["u1"]) = 2
       /\ WriteLocked

(***************************************************************************)
(* Claims about GetIssues on machine integers.                             *)
(***************************************************************************)
\* page lies beyond the last page: (page - 1) * perPage >= total, on naturals
BeyondLast(page, perPage, total) ==
    ~NatGt(BitsOf(total), Times(MinusOne64(page), perPage))

\* C27: for every page >= 1 and perPage >= 1 that an int can hold, a GetIssues
\* call with page beyond the last page returns no items and the total of the
\* filtered rows, and does not fault.
C27_BeyondLastPage ==
    [][\A pg \in PageArgs, pp \in PerPageArgs, f \in StatusFilters :
          ( /\ CallGetIssues64("u1", pg, pp, f)
            /\ ~Lt64(pg, One64) /\ ~Lt64(pp, One64)
            /\ BeyondLast(pg, pp, Len(RowsWithStatus(transactions["u1"], Wanted(f)))) )
          => /\ ret'.err = NoErr
             /\ ret'.items = <<>>
             /\ ret'.total = Len(RowsWithStatus(transactions["u1"], Wanted(f)))
      ]_vars

(***************************************************************************)
(* Claims about events whose Consume fails.                                *)
(***************************************************************************)
\* worker w holds an event that is not processed and whose payload is no
\* ReconciliationEvent
HoldsPoison(w) ==
    /\ workers[w].pc \in {"check", "add", "mark", "inc", "sleep"}
    /\ workers[w].event.Payload.kind # "ReconciliationEvent"
    /\ workers[w].event.ID \notin processedEvents

\* C29: Consume of an event that is not processed and whose payload is no
\* ReconciliationEvent returns an error (Do backs off, or gives up after the
\* last attempt) and the worker's steps on it leave the repository as it is:
\* no row added, the id not marked, ProcessedRows unchanged, on every attempt.
C29_PoisonNoMutation ==
    [][\A w \in DOMAIN workers :
          (HoldsPoison(w) /\ workers'[w] # workers[w]) =>
             /\ storeVars' = storeVars
             /\ workers[w].pc \in {"check", "sleep"}
             /\ workers[w].pc = "check" =>
                   workers'[w] = AfterConsume(workers[w], ErrInvalidPayload)
             /\ (workers[w].pc = "check" /\ workers[w].attempt < MaxAttempts - 1)
                   => workers'[w].pc = "sleep"
      ]_vars

\* C29 witness: the poison event, already refused four times, is about to be
\* consumed for the last time, and the repository holds nothing of it
C29_Witness ==
    \E w \in DOMAIN workers :
       /\ HoldsPoison(w)
       /\ workers[w].pc = "check"
       /\ workers[w].attempt = MaxAttempts - 1
       /\ transactions["u1"] = <<>>
       /\ uploads["u1"].ProcessedRows = 0

\* AddTransaction fails for the event worker w is about to add
AddFails(w) ==
    /\ workers[w].pc = "add"
    /\ AddTransaction(Store, workers[w].event.Payload.UploadID,
                      workers[w].event.Payload.Transaction,
                      workers[w].event.Payload.LineNumber).err # NoErr

\* C30: when AddTransaction fails inside Consume, Consume returns the error
\* (Do backs off, or gives up after the last attempt) without marking the
\* event or counting the row, and no step of a worker other than an
\* AddTransaction, MarkEventProcessed or IncrementProcessedRows that follows
\* a successful AddTransaction changes the repository: an event that fails on
\* every attempt leaves rows, processed ids and counters as they were.
C30_AddFailureNoMutation ==
    [][\A w \in DOMAIN workers :
          /\ (AddFails(w) /\ workers'[w] # workers[w]) =>
                /\ storeVars' = storeVars
                /\ workers'[w] = AfterConsume(workers[w], ErrUploadNotFound)
                /\ workers[w].attempt < MaxAttempts - 1 => workers'[w].pc = "sleep"
                /\ workers'[w].pc \notin {"mark", "inc"}
          /\ ( /\ workers'[w] # workers[w]
               /\ workers[w].pc \in {"select", "check", "sleep"} )
                => storeVars' = storeVars
          /\ workers[w].pc \in {"mark", "inc"} =>
                \E i \in DOMAIN transactions[workers[w].event.Payload.UploadID] :
                   transactions[workers[w].event.Payload.UploadID][i] =
                      [Transaction |-> workers[w].event.Payload.Transaction,
                       LineNumber |-> workers[w].event.Payload.LineNumber]
      ]_vars

\* C30 witness: the event for the missing upload has failed four times and
\* waits for its last attempt, the repository holding nothing of it
C30_Witness ==
    \E w \in DOMAIN workers :
       /\ workers[w].pc = "sleep"
       /\ workers[w].attempt = MaxAttempts - 2
       /\ workers[w].event = EvMissing
       /\ "u2" \notin DOMAIN uploads
       /\ workers[w].event.ID \notin processedEvents
       /\ transactions["u1"] = <<>>
       /\ uploads["u1"].ProcessedRows = 0

(***************************************************************************)
(* Claims about an upload from the file to the ledger.                     *)
(***************************************************************************)
\* Publish found the queue full and dropped the event
Dropped == pubRet.did = "dropped"

LinesOf(rows) == {rows[i].LineNumber : i \in DOMAIN rows}

\* every event the processor of u1 published is in the ledger once and
\* counted, and the queries answer what the file determines
Applied ==
    /\ proc["u1"].pc = "done"
    /\ Len(transactions["u1"]) = Len(proc["u1"].published)
    /\ {transactions["u1"][i] : i \in DOMAIN transactions["u1"]}
          = {RowOf(proc["u1"].published[i]) : i \in DOMAIN proc["u1"].published}
    /\ LinesOf(transactions["u1"])
          = {proc["u1"].published[i].Payload.LineNumber :
                i \in DOMAIN proc["u1"].published}
    /\ Cardinality(LinesOf(transactions["u1"])) = Len(transactions["u1"])
    /\ uploads["u1"].ProcessedRows = proc["u1"].successCount
    /\ proc["u1"].input = S1File =>
          /\ GetBalance(Store, "u1").balance = 250000
          /\ GetIssues(Store, "u1", 1, DefaultPerPage, Nil).total = 2
          /\ LinesOf(GetIssues(Store, "u1", 1, DefaultPerPage, Nil).items) = {3, 4}
          /\ Len(GetIssues(Store, "u1", 1, DefaultPerPage, Nil).items) = 2

\* C28: with the bus started with at least one worker and not shut down, no
\* event dropped at a full queue and the repository calls succeeding, under
\* fair scheduling every event the processor published is eventually applied
\* and stays so: one row per published line number, ProcessedRows equal to
\* the success count, and for the test's file balance 250000 and the two
\* issues of lines 3 and 4.
C28_EventuallyApplied == ([]~Dropped) => <>[]Applied

\* C28 witness: the test's file went through without a drop and its four
\* rows are applied
C28_Witness ==
    /\ proc["u1"].input = S1File
    /\ Len(accepted) = 4
    /\ ~Dropped
    /\ Applied
    /\ Quiescent

(***************************************************************************)
(* Claims about a MarkEventProcessed that fails.                           *)
(***************************************************************************)
\* the rows of upload u1 that event ev asked for
CopiesOf(ev) ==
    Cardinality({i \in DOMAIN transactions["u1"] : transactions["u1"][i] = RowOf(ev)})

\* the deliveries of ev the worker has finished or dropped
Delivered(ev) ==
    Cardinality({i \in DOMAIN accepted : accepted[i] = ev})

\* C31: when AddTransaction succeeded and MarkEventProcessed failed, the
\* retry of the event adds its row again: an event not yet marked has a row
\* in the ledger for every attempt that failed, the balance counts each copy,
\* and ProcessedRows rises by at most one for an event id.
C31_DuplicateOnRetry ==
    /\ \A w \in DOMAIN workers :
          ( /\ workers[w].pc \in {"check", "add", "mark", "sleep"}
            /\ workers[w].event.ID \notin processedEvents )
          => /\ CopiesOf(workers[w].event) >=
                   workers[w].attempt
                      + (IF workers[w].pc \in {"mark", "sleep"} THEN 1 ELSE 0)
             /\ (workers[w].pc = "add" /\ workers[w].attempt > 0) =>
                   /\ AddTransaction(Store, "u1", workers[w].event.Payload.Transaction,
                         workers[w].event.Payload.LineNumber).err = NoErr
                   /\ ENABLED ConsumeAdd(w)
    /\ GetBalance(Store, "u1").balance =
          500000 * CopiesOf(EvA) - 250000 * CopiesOf(EvJohn)
    /\ uploads["u1"].ProcessedRows <= Cardinality(processedEvents)
    /\ \A ev \in MarkEvents : ev.ID \in processedEvents => CopiesOf(ev) >= 1

\* C31 witness: the first attempt on EvA added the row and failed to mark
\* it, the second added it again and succeeded: two rows, one counted
C31_Witness ==
    /\ CopiesOf(EvA) = 2
    /\ Delivered(EvA) = 1
    /\ "e1" \in processedEvents
    /\ uploads["u1"].ProcessedRows = 1
    /\ GetBalance(Store, "u1").balance = 1000000
    /\ Quiescent

(***************************************************************************)
(* Claims about the attempts a worker makes.                               *)
(***************************************************************************)
\* C32: a worker calls Consume at most 5 times for the event it took,
\* whatever Config.MaxRetries holds; when the fifth attempt fails the event is
\* put on no queue again, the worker is back at its select, still counted by
\* the wait group, and takes the next event when there is one.
C32_FiveAttempts ==
    [][\A w \in DOMAIN workers :
          /\ workers[w].attempt < MaxAttempts
          /\ workers[w].pc = "sleep" => workers[w].attempt < MaxAttempts - 1
          /\ \A cfg \in [ChannelBuffer : {ChannelBuffer}, MaxRetries : RetryConfigs] :
                New(cfg) = New([cfg EXCEPT !.MaxRetries = main.MaxRetries])
          /\ ( /\ (HoldsPoison(w) /\ workers[w].pc = "check") \/ AddFails(w)
               /\ workers[w].attempt = MaxAttempts - 1
               /\ workers'[w] # workers[w] )
             => /\ workers'[w] = Worker(workers[w].ch, workers[w].consumer,
                                        workers[w].workerID)
                /\ channels' = channels
                /\ accepted' = accepted
                /\ wg' = wg
                /\ storeVars' = storeVars
          /\ (workers[w].pc = "select" /\ channels[workers[w].ch] # <<>>)
                => ENABLED WorkerReceive(w)
      ]_vars

\* C32 witness: the event for the missing upload was given up after its fifth
\* attempt, and the worker has taken the event published after it
C32_Witness ==
    \E w \in DOMAIN workers :
       /\ accepted = <<EvMissing, EvA>>
       /\ "u2" \notin DOMAIN uploads
       /\ workers[w].event = EvA
       /\ workers[w].pc = "check"
       /\ main.MaxRetries # MaxAttempts

(***************************************************************************)
(* Claims about the status the processor records.                          *)
(***************************************************************************)
\* C33: the processor records the terminal status as soon as its read loop
\* ends, whatever the queue holds and wherever the workers stand, and the
\* step leaves ProcessedRows, the queue and the workers as they are: COMPLETED
\* with ProcessedRows below the number of rows published is reachable.
C33_CompletedOnPublish ==
    [][\A id \in DOMAIN proc :
          /\ (proc[id].pc = "loop" /\ proc[id].pos = Len(proc[id].input))
                => ENABLED ProcFinish(id)
          /\ ProcFinish(id) =>
                /\ uploads'[id].Status =
                      FinalStatus(proc[id].errorCount, proc[id].successCount)
                /\ uploads'[id].ProcessedRows = uploads[id].ProcessedRows
                /\ channels' = channels
                /\ workers' = workers
                /\ transactions' = transactions
      ]_vars

\* C33 witness: u1 is COMPLETED, all four rows of the test's file were put on
\* the queue, and rows are still queued and in flight, fewer being counted
C33_Witness ==
    /\ uploads["u1"].Status = UploadStatusCompleted
    /\ proc["u1"].pc = "done"
    /\ Len(accepted) = 4
    /\ uploads["u1"].ProcessedRows < Len(proc["u1"].published)
    /\ channels[EventTypeReconciliation] # <<>>
    /\ \E w \in DOMAIN workers : workers[w].pc = "add"

(***************************************************************************)
(* Claims about the end of ProcessStream.                                  *)
(***************************************************************************)
\* C34: ProcessStream terminates for every stream it is given: every upload
\* UploadStatement accepted eventually leaves PROCESSING for COMPLETED or
\* FAILED.
C34_ProcessStreamTerminates ==
    \A id \in UploadIds :
       (id \in DOMAIN uploads)
          ~> ( /\ id \in DOMAIN uploads
               /\ uploads[id].Status \in {UploadStatusCompleted, UploadStatusFailed} )

(***************************************************************************)
(* Claims about the end of the workers.                                    *)
(***************************************************************************)
AllExited == wg = 0 /\ \A w \in DOMAIN workers : workers[w].pc = "exited"

\* C35: once Shutdown has cancelled the context of a started bus every
\* worker eventually exits, asleep in a backoff or idle as it may be; a
\* Shutdown whose caller's ctx never fires eventually returns nil, and only
\* after all workers have exited; a Shutdown whose caller's ctx fires while
\* a worker has not exited returns the cancellation error.
C35_ShutdownDrains ==
    /\ (busCtx = CtxCancelled) ~> AllExited
    /\ ([](shutdown # "timeout")) => ((shutdown = "waiting") ~> (shutdown = "ok"))
    /\ [](shutdown = "ok" => AllExited)
    /\ [][(shutdown = "waiting" /\ ~AllExited /\ shutdown' # shutdown)
             => shutdown' = "timeout"]_vars

\* C35 witness: Shutdown returned nil: every worker has exited, the one that
\* had taken the event for the missing upload too, and the event published
\* after it is left on the queue
C35_Witness ==
    /\ shutdown = "ok"
    /\ AllExited
    /\ Len(workers) = MaxWorkers
    /\ accepted = <<EvMissing, EvA>>
    /\ "u2" \notin DOMAIN uploads
    /\ transactions["u1"] = <<>>
    /\ channels[EventTypeReconciliation] = <<EvA>>

(***************************************************************************)
(* Claims about the order of the rows.                                     *)
(***************************************************************************)
\* the rows were appended in increasing order of their line numbers
Increasing(rows) ==
    \A i, j \in DOMAIN rows : i < j => rows[i].LineNumber < rows[j].LineNumber

HoldersOf(ev) == {w \in DOMAIN workers : workers[w].event = ev}

\* C37: the consumers subscribed to one type share its single queue, and an
\* event put on it is taken by at most one worker: it is on the queue, or
\* with one worker of one consumer, or done with, and it is applied once: no
\* event reaches the workers of both consumers.
C37_CompetingConsumers ==
    /\ DOMAIN channels = {EventTypeReconciliation}
    /\ \A w \in DOMAIN workers : workers[w].ch = EventTypeReconciliation
    /\ {workers[w].consumer : w \in DOMAIN workers} = {1, 2}
    /\ \A i \in DOMAIN accepted :
          LET ev == accepted[i]
              onQueue == Cardinality({k \in DOMAIN channels[ev.Type] :
                                         channels[ev.Type][k] = ev})
          IN /\ onQueue + Cardinality(HoldersOf(ev)) <= 1
             /\ CopiesOf(ev) <= 1
             /\ onQueue = 1 => CopiesOf(ev) = 0 /\ ev.ID \notin processedEvents
             /\ ev.ID \in processedEvents => CopiesOf(ev) = 1
    /\ uploads["u1"].ProcessedRows <= Len(accepted)

\* C37 witness: three events went through the queue of two consumers: one is
\* applied, the worker of the first consumer holds another and the worker of
\* the second consumer the third
C37_Witness ==
    /\ Len(accepted) = 3
    /\ transactions["u1"] = <<RowOf(EvA)>>
    /\ workers[1].consumer = 1 /\ workers[1].pc = "add" /\ workers[1].event = EvBob
    /\ workers[2].consumer = 2 /\ workers[2].pc = "add" /\ workers[2].event = EvJohn
    /\ channels[EventTypeReconciliation] = <<>>

(***************************************************************************)
(* Claims about the pipeline as main wires it.                             *)
(***************************************************************************)
\* the events put on a queue for upload id so far
EnqueuedFor(id) ==
    Cardinality({i \in DOMAIN accepted : accepted[i].Payload.UploadID = id})

\* C38: in the pipeline (uploads created by UploadStatement, events produced
\* by ProcessStream only, the in-memory store) every upload has
\* ProcessedRows <= rows in its ledger <= events put on the queue for it.
C38_CounterLags ==
    \A id \in DOMAIN uploads :
       /\ uploads[id].ProcessedRows <= Len(RowsOf(Store, id))
       /\ Len(RowsOf(Store, id)) <= EnqueuedFor(id)
       /\ EnqueuedFor(id) <= proc[id].successCount

\* C38 witness: two events of an upload were put on the queue, one row is in
\* the ledger and not yet counted
C38_Witness ==
    \E id \in DOMAIN uploads :
       /\ EnqueuedFor(id) = 2
       /\ Len(RowsOf(Store, id)) = 1
       /\ uploads[id].ProcessedRows = 0

\* event id is marked and an event of that id has its row in the ledger of
\* its upload
AppliedId(id) ==
    \E i \in DOMAIN accepted :
       /\ accepted[i].ID = id
       /\ \E k \in DOMAIN RowsOf(Store, accepted[i].Payload.UploadID) :
             RowsOf(Store, accepted[i].Payload.UploadID)[k] = RowOf(accepted[i])

\* C39: every event id in the processed-event set has a row in the ledger of
\* its upload, AddTransaction being committed before MarkEventProcessed, and
\* the set only grows: an id once marked is reported processed ever after.
C39_MarkedImpliesApplied ==
    /\ [](\A id \in processedEvents : AppliedId(id))
    /\ [][/\ processedEvents \subseteq processedEvents'
          /\ \A id \in processedEvents : IsEventProcessed(Store, id).processed'
         ]_vars

\* C39 witness: two ids are marked, their rows in the ledger, and a third
\* event has its row and is not marked yet
C39_Witness ==
    /\ Cardinality(processedEvents) = 2
    /\ \A id \in processedEvents : AppliedId(id)
    /\ \E w \in DOMAIN workers :
          workers[w].pc = "mark" /\ workers[w].event.ID \notin processedEvents

\* C40: an upload that ProcessStream finalized as FAILED has no row in its
\* ledger, ProcessedRows 0 and balance 0, and no event of it was put on a
\* queue or is with a worker: FAILED is recorded only when no Publish of the
\* upload succeeded.
C40_FailedHasNoRows ==
    \A id \in DOMAIN uploads :
       uploads[id].Status = UploadStatusFailed =>
          /\ proc[id].pc = "done"
          /\ proc[id].successCount = 0 /\ proc[id].errorCount > 0
          /\ RowsOf(Store, id) = <<>>
          /\ uploads[id].ProcessedRows = 0
          /\ GetBalance(Store, id).balance = 0
          /\ EnqueuedFor(id) = 0
          /\ \A w \in DOMAIN workers : workers[w].event.Payload.UploadID # id

\* C40 witness: one upload is FAILED and empty while the other, whose file
\* had a bad record too, has rows
C40_Witness ==
    \E id, other \in DOMAIN uploads :
       /\ uploads[id].Status = UploadStatusFailed
       /\ RowsOf(Store, id) = <<>>
       /\ uploads[other].Status = UploadStatusCompleted
       /\ proc[other].errorCount > 0
       /\ Len(RowsOf(Store, other)) >= 1

====
